---- MODULE Spec2Model ----
(***************************************************************************)
(* lsstx.DateTime: a nanosecond DateTime facade over astropy.time.Time.    *)
(*                                                                         *)
(* Numbers.  TLC integers are 32 bits wide, and a nanosecond count since   *)
(* 1970 is not.  A Python integer of nanoseconds is therefore held as the  *)
(* decimal text the code itself works on: a sign, the digits before the    *)
(* last nine (s) and the last nine digits (f), i.e. the value              *)
(* (IF neg THEN -1 ELSE 1) * (s * 10^9 + f).                               *)
(*                                                                         *)
(* astropy.  An astropy Time is held as the reading of the clock of its    *)
(* own scale, [scale, day, sod, ns]: the (Modified Julian) day number, the *)
(* second of that day and the nanosecond of that second, and sub, the      *)
(* hundredths of a nanosecond above it: astropy holds the time of day in a *)
(* double that resolves about 10 ps, so the tenth and eleventh decimals of *)
(* a second read from text are kept.  For a UTC Time the reading is the    *)
(* civil one (sod = 86400 during a leap second).                           *)
(* astropy's own arithmetic on its two-double Julian dates is taken as     *)
(* exact, and a conversion between UTC and TAI before 1972 (where UTC      *)
(* seconds are not SI seconds) is rounded to the nearest nanosecond, the   *)
(* resolution astropy renders.  The floating-point arithmetic that the     *)
(* repository's own code performs on nanosecond counts (nsecs/1e9) is      *)
(* modelled with IEEE-754 binary64 rounding.                               *)
(* The floats that get and mjd return (t.mjd, t.jd, t.jyear) are held as   *)
(* the binary64 they are: the day and the 37 binary places of the fraction *)
(* of the day that a double of that size keeps.                            *)
(***************************************************************************)
EXTENDS Integers, Sequences, FiniteSets, TLC

----------------------------------------------------------------------------
(* Program constants *)

NANO == 1000000000

DAYSEC == 86400

\* DateTime._EPOCH_INTEGER_LEAP: unix seconds of 1972-01-01T00:00:00 UTC
EPOCH_INTEGER_LEAP == 63072000

\* TimeLSSTNano.epoch_val / TimeUnix epoch: MJD of 1970-01-01
EPOCH_MJD == 40587

\* TT - TAI = 32.184 s
TT_MINUS_TAI_S == 32

TT_MINUS_TAI_NS == 184000000

----------------------------------------------------------------------------
(* Timescale and DateSystem enums (lines 13-24).  A Python value passed    *)
(* where a scale or a date system is expected is held as its class, its    *)
(* member name (enum members only) and its integer value: an enum member   *)
(* and the integer with its value are different objects, as in Python      *)
(* (isinstance and "is" tell them apart).                                  *)

TimescaleNames == <<"TAI", "UTC", "TT">>

DateSystemNames == <<"JD", "MJD", "EPOCH">>

\* Timescale.TAI = 0, Timescale.UTC = 1, Timescale.TT = 2
TimescaleMember(name) ==
    [cls |-> "Timescale", name |-> name,
     code |-> (CHOOSE i \in 1..3 : TimescaleNames[i] = name) - 1]

\* DateSystem.JD = 0, DateSystem.MJD = 1, DateSystem.EPOCH = 2
DateSystemMember(name) ==
    [cls |-> "DateSystem", name |-> name,
     code |-> (CHOOSE i \in 1..3 : DateSystemNames[i] = name) - 1]

\* A plain Python integer.
PyInt(c) == [cls |-> "int", name |-> "", code |-> c]

Timescale == {TimescaleMember(TimescaleNames[i]) : i \in 1..3}

DateSystem == {DateSystemMember(DateSystemNames[i]) : i \in 1..3}

TAI == TimescaleMember("TAI")

UTC == TimescaleMember("UTC")

TT == TimescaleMember("TT")

JD == DateSystemMember("JD")

MJD == DateSystemMember("MJD")

EPOCH == DateSystemMember("EPOCH")

\* The error a call raises: every raise in DateTime.py is a ValueError; the
\* site tells which one.
Error(site) == [cls |-> "ValueError", name |-> site, code |-> -1]

IsError(x) == x.cls = "ValueError"

\* _import_date_system: an enum member is returned as it is, an integer
\* that is a key of sys_lut is translated, anything else raises.
import_date_system(system) ==
    IF system.cls = "DateSystem" THEN system
    ELSE IF system.cls = "int" /\ system.code \in {0, 1, 2}
         THEN DateSystemMember(DateSystemNames[system.code + 1])
         ELSE Error("_import_date_system")

\* _import_scale
import_scale(scale) ==
    IF scale.cls = "Timescale" THEN scale
    ELSE IF scale.cls = "int" /\ scale.code \in {0, 1, 2}
         THEN TimescaleMember(TimescaleNames[scale.code + 1])
         ELSE Error("_import_scale")

\* _scale_to_astropy: only an enum member has an astropy name
\* (scale.name.lower()).
scale_to_astropy(scale) ==
    IF scale.cls # "Timescale" THEN "ValueError"
    ELSE CASE scale.name = "TAI" -> "tai"
           [] scale.name = "UTC" -> "utc"
           [] scale.name = "TT" -> "tt"

\* _system_to_astropy
system_to_astropy(system) ==
    IF system.cls # "DateSystem" THEN "ValueError"
    ELSE CASE system.name = "MJD" -> "mjd"
           [] system.name = "JD" -> "jd"
           [] system.name = "EPOCH" -> "jyear"

----------------------------------------------------------------------------
(* astropy.time.Time as used by DateTime.py: clock readings and the        *)
(* conversions between the UTC, TAI and TT clocks.                         *)

\* A clock reading, normalised: 0 <= ns < 10^9 and 0 <= sod < 86400 (floor
\* semantics for readings before the epoch).  AddSeconds and AddNanos carry
\* and borrow.  |dns| < 2 * 10^9.
Reading(day, sod, ns) == [day |-> day, sod |-> sod, ns |-> ns]

Normalise(day, sod, ns) ==
    LET s2 == sod + (ns \div NANO)
    IN  Reading(day + (s2 \div DAYSEC), s2 % DAYSEC, ns % NANO)

\* r1 < r2, field by field
Before(r1, r2) ==
    \/ r1.day < r2.day
    \/ r1.day = r2.day /\ r1.sod < r2.sod
    \/ r1.day = r2.day /\ r1.sod = r2.sod /\ r1.ns < r2.ns

\* The leap-second table astropy carries (ERFA eraDat), from 1972: the MJD
\* of the UTC day on which each whole-second step of TAI-UTC takes effect.
\* TAI-UTC is 10 s from the first entry and grows by 1 s at each later one.
LeapDays ==
    << 41317, 41499, 41683, 42048, 42413, 42778, 43144, 43509, 43874,
       44239, 44786, 45151, 45516, 46247, 47161, 47892, 48257, 48804,
       49169, 49534, 50083, 50630, 51179, 53736, 54832, 56109, 57204 >>

\* First UTC day of the whole-second era (1972-01-01).
FirstLeapDay == LeapDays[1]

\* TAI-UTC in whole seconds on UTC day D >= 1972-01-01.
LeapSeconds(D) == 9 + Cardinality({i \in 1..Len(LeapDays) : LeapDays[i] <= D})

\* UTC day D ends with an inserted leap second (23:59:60 exists).
IsLeapDay(D) == D >= FirstLeapDay /\ \E i \in 1..Len(LeapDays) : LeapDays[i] = D + 1

\* Before 1972 (ERFA's entry for 1968-02-01 .. 1972-01-01):
\* TAI-UTC = 4.2131700 s + (MJD - 39126) * 0.002592 s; in microseconds at
\* 0h of UTC day D.  The UTC second is longer than the SI second by 30 ns.
DriftMicros(D) == 4213170 + (D - 39126) * 2592

DriftNsPerSec == 30

\* TAI-UTC at 0h UTC of day D, as seconds and nanoseconds.
DatSec(D) == IF D >= FirstLeapDay THEN LeapSeconds(D) ELSE DriftMicros(D) \div 1000000

DatNs(D) == IF D >= FirstLeapDay THEN 0 ELSE (DriftMicros(D) % 1000000) * 1000

\* round(3 * x / 10^8) for 0 <= x < 10^9: the drift over x nanoseconds of a
\* pre-1972 UTC second, in nanoseconds.
DriftOfNanos(x) ==
    3 * (x \div 100000000) + ((6 * (x % 100000000) + 100000000) \div 200000000)

\* UTC -> TAI (erfa utctai).  u is a civil UTC reading (sod = 86400 in a
\* leap second).  From 1972 the offset is the table's whole seconds; before,
\* it is the drifting offset at that moment of the day.
UtcToTai(u) ==
    IF u.day >= FirstLeapDay
    THEN LET s2 == u.sod + LeapSeconds(u.day)
         IN  Reading(u.day + (s2 \div DAYSEC), s2 % DAYSEC, u.ns)
    ELSE Normalise(u.day, u.sod + DatSec(u.day),
                   u.ns + DatNs(u.day) + DriftNsPerSec * u.sod + DriftOfNanos(u.ns))

\* The TAI reading of 0h UTC of day D.
MidnightTai(D) == Reading(D, DatSec(D), DatNs(D))

\* round(3 * g / 100000003) for -3 * 10^6 < g < 10^9
DriftBack(g) ==
    3 * (g \div 100000003) + ((6 * (g % 100000003) + 100000003) \div 200000006)

\* TAI -> UTC (erfa taiutc), the inverse of UtcToTai.  The UTC day is the
\* last one whose midnight is not after t; the time into it is t minus that
\* midnight, in SI seconds from 1972 and shrunk by 1/(1 + 3e-8) before.
TaiToUtc(t) ==
    LET D == IF Before(t, MidnightTai(t.day)) THEN t.day - 1 ELSE t.day
        m == MidnightTai(D)
        x == Normalise(0, (t.day - D) * DAYSEC + t.sod - m.sod - 1, t.ns - m.ns + NANO)
        xs == x.day * DAYSEC + x.sod
    IN  IF D >= FirstLeapDay
        THEN Reading(D, xs, x.ns)
        ELSE LET c == Normalise(0, xs, x.ns - DriftNsPerSec * xs - DriftBack(x.ns - DriftNsPerSec * xs))
             IN  Reading(D + c.day, c.sod, c.ns)

\* TAI <-> TT: a fixed 32.184 s.
TaiToTt(t) == Normalise(t.day, t.sod + TT_MINUS_TAI_S, t.ns + TT_MINUS_TAI_NS)

TtToTai(t) == Normalise(t.day, t.sod - TT_MINUS_TAI_S - 1, t.ns - TT_MINUS_TAI_NS + NANO)

\* Hundredths of a nanosecond in a nanosecond.
SUBS == 100

\* An astropy Time: a reading and the scale ("tai", "utc", "tt") it is in.
Time(scale, r) ==
    [cls |-> "Time", scale |-> scale, day |-> r.day, sod |-> r.sod, ns |-> r.ns,
     sub |-> 0]

\* Time.tai, Time.utc, Time.tt: the same instant on another clock.
AsTai(t) ==
    CASE t.scale = "tai" -> Reading(t.day, t.sod, t.ns)
      [] t.scale = "utc" -> UtcToTai(t)
      [] t.scale = "tt" -> TtToTai(t)

\* The part of a nanosecond below the reading's ns goes along unchanged.
AsScale(t, scale) ==
    IF t.scale = scale THEN t
    ELSE CASE scale = "tai" -> [Time("tai", AsTai(t)) EXCEPT !.sub = t.sub]
           [] scale = "utc" -> [Time("utc", TaiToUtc(AsTai(t))) EXCEPT !.sub = t.sub]
           [] scale = "tt" -> [Time("tt", TaiToTt(AsTai(t))) EXCEPT !.sub = t.sub]

\* The seconds in the day of t: 86401 on a UTC day that ends with a leap
\* second.
DayLength(t) == IF t.scale = "utc" /\ IsLeapDay(t.day) THEN DAYSEC + 1 ELSE DAYSEC

\* t as rendered with precision = 9 (erfa d2dtf): rounded to the nearest
\* nanosecond, with the carry into the second and the day.
Rounded(t) ==
    IF 2 * t.sub < SUBS THEN [t EXCEPT !.sub = 0]
    ELSE IF t.ns + 1 < NANO THEN [t EXCEPT !.ns = t.ns + 1, !.sub = 0]
    ELSE IF t.sod + 1 < DayLength(t) THEN [t EXCEPT !.sod = t.sod + 1, !.ns = 0, !.sub = 0]
    ELSE [t EXCEPT !.day = t.day + 1, !.sod = 0, !.ns = 0, !.sub = 0]

----------------------------------------------------------------------------
(* The astropy formats DateTime.py reads and writes.                       *)

\* Time(secs, format="taiunix", scale="tai") / format="ttunix", scale="tt":
\* the reading secs seconds (and ns nanoseconds) after 1970-01-01T00:00:00
\* on that clock (TimeTAISinceUnix, TimeTTSinceUnix).
FromEpochSeconds(secs, ns) == Normalise(EPOCH_MJD, secs, ns)

\* int(t.taiunix): whole TAI seconds since the epoch, truncated toward 0.
TaiUnixInt(t) ==
    CHOOSE n \in
        {IF (r.day - EPOCH_MJD) * DAYSEC + r.sod < 0 /\ (r.ns > 0 \/ t.sub > 0)
         THEN (r.day - EPOCH_MJD) * DAYSEC + r.sod + 1
         ELSE (r.day - EPOCH_MJD) * DAYSEC + r.sod : r \in {AsTai(t)}} : TRUE

\* ceil(cs * 10^9 / 86400): the least nanosecond of civil second cs of a
\* day of 86401 s at which the 86400-second count of that day reaches cs.
SpreadThreshold(cs) ==
    312500 * (cs \div 27) + ((312500 * (cs % 27) + 26) \div 27)

\* The second of the day in astropy's "unix" format (TimeUnix: 86400
\* seconds to every UTC day).  On a day that ends with a leap second the
\* 86401 civil seconds are spread over the 86400: civil second cs counts as
\* cs * 86400 / 86401.
UnixSecondOfDay(u) ==
    IF IsLeapDay(u.day) /\ u.ns < SpreadThreshold(u.sod) THEN u.sod - 1 ELSE u.sod

\* The "unix" value of u is a whole number of seconds.
UnixIsWhole(u) ==
    /\ u.sub = 0
    /\ IF IsLeapDay(u.day)
       THEN u.sod % 27 = 0 /\ u.ns = SpreadThreshold(u.sod)
       ELSE u.ns = 0

\* int(t.unix): whole "unix" seconds since 1970-01-01T00:00:00 UTC,
\* truncated toward 0.
UnixInt(t) ==
    CHOOSE n \in
        {CHOOSE k \in
            {IF fl < 0 /\ ~UnixIsWhole(u) THEN fl + 1 ELSE fl :
                fl \in {(u.day - EPOCH_MJD) * DAYSEC + UnixSecondOfDay(u)}} : TRUE :
            u \in {AsScale(t, "utc")}} : TRUE

\* t.unix > bound, for a whole number of seconds bound.
UnixAfter(t, bound) ==
    \E u \in {AsScale(t, "utc")} :
        \E fl \in {(u.day - EPOCH_MJD) * DAYSEC + UnixSecondOfDay(u)} :
            fl > bound \/ (fl = bound /\ ~UnixIsWhole(u))

\* ttmp = Time(k, format="unix", scale="utc"); ttmp.taiunix - ttmp.unix:
\* TAI-UTC at unix second k, as whole seconds and nanoseconds (floor).  On a
\* day that ends with a leap second the inserted second is spread over the
\* day: the difference grows from L to L + 1 in the course of it.
TaiMinusUnix(k) ==
    LET D == EPOCH_MJD + (k \div DAYSEC)
        q == k % DAYSEC
    IN  IF D >= FirstLeapDay
        THEN [s |-> LeapSeconds(D),
              ns |-> IF IsLeapDay(D)
                     THEN 312500 * (q \div 27) + ((312500 * (q % 27)) \div 27)
                     ELSE 0]
        ELSE LET ns == DatNs(D) + DriftNsPerSec * q
             IN  [s |-> DatSec(D) + (ns \div NANO), ns |-> ns % NANO]

\* int(deltat): line 249 without the + 0.5
RoundDown(d) == [s |-> d.s, ns |-> 0]

\* int(deltat + 0.5) for deltat >= 0
RoundHalfUp(d) == [s |-> IF 2 * d.ns >= NANO THEN d.s + 1 ELSE d.s, ns |-> 0]

\* t.isot with t.precision = 0, the seconds rounded to a whole number
\* (erfa d2dtf): the reading at a whole second.
IsoWholeSecond(Tm) ==
    IF 2 * Tm.ns >= NANO
    THEN IF Tm.scale = "utc"
         THEN Time("utc", TaiToUtc(Normalise(UtcToTai(Tm).day, UtcToTai(Tm).sod + 1, 0)))
         ELSE Time(Tm.scale, Normalise(Tm.day, Tm.sod + 1, 0))
    ELSE [Tm EXCEPT !.ns = 0]

\* t - TimeDelta(f nanoseconds): in t's own scale for tai and tt; a utc time
\* is taken to TAI, moved, and brought back (astropy Time.__sub__).
MinusNanos(Tm, f) ==
    IF Tm.scale = "utc"
    THEN LET a == UtcToTai(Tm)
         IN  Time("utc", TaiToUtc(Normalise(a.day, a.sod - 1, a.ns - f + NANO)))
    ELSE Time(Tm.scale, Normalise(Tm.day, Tm.sod - 1, Tm.ns - f + NANO))

----------------------------------------------------------------------------
(* Python arithmetic of the repository's own code.                         *)

\* A Python integer of nanoseconds: sign, digits before the last nine, last
\* nine digits.
PyLong(neg, s, f) == [cls |-> "long", neg |-> neg, s |-> s, f |-> f]

\* 2^E = Pow2Whole[E - 52] * 10^9 + Pow2Nanos[E - 52] for E in 53..60
Pow2Whole ==
    << 9007199, 18014398, 36028797, 72057594, 144115188, 288230376,
       576460752, 1152921504 >>

Pow2Nanos ==
    << 254740992, 509481984, 18963968, 37927936, 75855872, 151711744,
       303423488, 606846976 >>

\* The number of powers of two from 2^53 up that s * 10^9 + f reaches: the
\* binary exponent of the integer, less 52 (0: the integer is below 2^53).
ExcessBits(s, f) ==
    Cardinality({i \in 1..Len(Pow2Whole) :
        s > Pow2Whole[i] \/ (s = Pow2Whole[i] /\ f >= Pow2Nanos[i])})

\* x rounded to a multiple of ulp, ties to the even multiple
RoundHalfEven(x, ulp) ==
    LET q == x \div ulp
        r == x % ulp
    IN  IF 2 * r > ulp \/ (2 * r = ulp /\ q % 2 = 1) THEN (q + 1) * ulp ELSE q * ulp

\* floor(log2(x)) for 1 <= x < 2^31
Log2Floor(x) == CHOOSE e \in 0..30 : 2^e <= x /\ (e = 30 \/ x < 2 * 2^e)

\* int(abs(nsecs)/1e9) for abs(nsecs) = s * 10^9 + f: the integer becomes a
\* binary64 (53 significant bits, round to nearest even), is divided by 1e9
\* (rounded again) and truncated.  s * 10^9 is a multiple of 512, so the
\* first rounding only moves f; the quotient rounds up to s + 1 when
\* 1 - f/10^9 is at most half a unit in the last place of s + 1.
FloatDivNano(s, f) ==
    LET x == ExcessBits(s, f)
        f1 == IF x = 0 THEN f ELSE RoundHalfEven(f, 2^x)
        s2 == s + (f1 \div NANO)
        f2 == f1 % NANO
        sh == IF s2 = 0 THEN 53 ELSE 53 - Log2Floor(s2)
    IN  IF sh <= 30 /\ NANO - f2 <= NANO \div (2^sh) THEN s2 + 1 ELSE s2

\* time_arg = int(nsecs/1e9): truncation is toward zero
TimeArg(n) == IF n.neg THEN 0 - FloatDivNano(n.s, n.f) ELSE FloatDivNano(n.s, n.f)

\* fraction = int(str(abs(nsecs))[-9:])
Fraction(n) == n.f

----------------------------------------------------------------------------
(* Text.  A Python string is held as the sequence of its characters.       *)

PyStr(chars) == [cls |-> "str", chars |-> chars]

DigitChars == <<"0", "1", "2", "3", "4", "5", "6", "7", "8", "9">>

\* \d
IsDigit(c) == \E i \in 1..10 : DigitChars[i] = c

DigitVal(c) == (CHOOSE i \in 1..10 : DigitChars[i] = c) - 1

\* int(s) for a string of at most nine digits
IntOf(s) ==
    LET place(i) == IF i <= Len(s) THEN DigitVal(s[Len(s) - i + 1]) * (10 ^ (i - 1)) ELSE 0
    IN  place(1) + place(2) + place(3) + place(4) + place(5) + place(6) + place(7)
        + place(8) + place(9)

\* "{:0w d}".format(n) for 0 <= n < 10^w
Digits(n, w) == [i \in 1..w |-> DigitChars[((n \div (10 ^ (w - i))) % 10) + 1]]

\* "{:d}".format(n) for 0 <= n < 10^9
Decimal(n) == Digits(n, CHOOSE w \in 1..9 : n < 10 ^ w /\ (w = 1 \/ n >= 10 ^ (w - 1)))

\* "{:0w}".format(n): at least w characters
Padded(n, w) == IF n < 10 ^ w THEN Digits(n, w) ELSE Decimal(n)

\* The number of digits of s from position i on.
DigitRun(s, i) ==
    CHOOSE n \in 0..Len(s) :
        /\ \A j \in i..(i + n - 1) : j <= Len(s) /\ IsDigit(s[j])
        /\ ~(i + n <= Len(s) /\ IsDigit(s[i + n]))

\* s has character c at position i.
At(s, i, c) == i <= Len(s) /\ s[i] = c

----------------------------------------------------------------------------
(* The calendar (erfa cal2jd and jd2cal, Python's datetime.date).          *)

IsLeapYear(y) == y % 4 = 0 /\ (y % 100 # 0 \/ y % 400 = 0)

DaysInMonth(y, m) ==
    IF m = 2 THEN (IF IsLeapYear(y) THEN 29 ELSE 28)
    ELSE IF m \in {4, 6, 9, 11} THEN 30 ELSE 31

\* The Modified Julian Day number of the Gregorian date y-m-d
\* (1858-11-17 is day 0; 1970-01-01 is day 40587).
MjdOfDate(y, m, d) ==
    LET yy == IF m <= 2 THEN y - 1 ELSE y
        era == yy \div 400
        yoe == yy - era * 400
        mp == (m + 9) % 12
        doy == (153 * mp + 2) \div 5 + d - 1
        doe == yoe * 365 + yoe \div 4 - yoe \div 100 + doy
    IN  era * 146097 + doe - 719468 + EPOCH_MJD

\* The Gregorian date of Modified Julian Day D.
DateOfMjd(D) ==
    LET z == D - EPOCH_MJD + 719468
        era == z \div 146097
        doe == z - era * 146097
        yoe == (doe - doe \div 1460 + doe \div 36524 - doe \div 146096) \div 365
        doy == doe - (365 * yoe + yoe \div 4 - yoe \div 100)
        mp == (5 * doy + 2) \div 153
        m == IF mp < 10 THEN mp + 3 ELSE mp - 9
    IN  [year |-> yoe + era * 400 + (IF m <= 2 THEN 1 ELSE 0),
         mon |-> m,
         day |-> doy - (153 * mp + 2) \div 5 + 1]

----------------------------------------------------------------------------
(* ISO 8601 text: the compact form of DateTime.py and astropy's isot       *)
(* format (TimeISOT, parsed with time.strptime and erfa dtf2d, written     *)
(* with erfa d2dtf).                                                       *)

\* The pattern (\d{4})(\d{2})(\d{2})T(\d{2})(\d{2})(\d{2})(\.\d+)?Z of line
\* 218 matches s from position i on.
CompactAt(s, i) ==
    /\ DigitRun(s, i) = 8
    /\ At(s, i + 8, "T")
    /\ DigitRun(s, i + 9) = 6
    /\ \/ At(s, i + 15, "Z")
       \/ /\ At(s, i + 15, ".")
          /\ DigitRun(s, i + 16) >= 1
          /\ At(s, i + 16 + DigitRun(s, i + 16), "Z")

\* Lines 218-222 without lines 223-224: the fraction, group 7 of the match,
\* is not put back.
FromCompact_whole_seconds(s) ==
    IF \E i \in 1..Len(s) : CompactAt(s, i)
    THEN LET i == CHOOSE k \in 1..Len(s) :
                      CompactAt(s, k) /\ \A j \in 1..(k - 1) : ~CompactAt(s, j)
         IN  SubSeq(s, i, i + 3) \o <<"-">> \o SubSeq(s, i + 4, i + 5) \o <<"-">>
             \o SubSeq(s, i + 6, i + 7) \o <<"T">> \o SubSeq(s, i + 9, i + 10)
             \o <<":">> \o SubSeq(s, i + 11, i + 12) \o <<":">>
             \o SubSeq(s, i + 13, i + 14)
    ELSE s

\* Lines 218-224: matcher.search finds the leftmost match anywhere in the
\* string; the text is then rebuilt from the groups alone, in extended form
\* and without the Z.  A string with no match is left as it is.
FromCompact(s) ==
    IF \E i \in 1..Len(s) : CompactAt(s, i)
    THEN LET i == CHOOSE k \in 1..Len(s) :
                      CompactAt(s, k) /\ \A j \in 1..(k - 1) : ~CompactAt(s, j)
         IN  SubSeq(s, i, i + 3) \o <<"-">> \o SubSeq(s, i + 4, i + 5) \o <<"-">>
             \o SubSeq(s, i + 6, i + 7) \o <<"T">> \o SubSeq(s, i + 9, i + 10)
             \o <<":">> \o SubSeq(s, i + 11, i + 12) \o <<":">>
             \o SubSeq(s, i + 13, i + 14)
             \o (IF At(s, i + 15, ".")
                 THEN SubSeq(s, i + 15, i + 15 + DigitRun(s, i + 16))
                 ELSE <<>>)
    ELSE s

\* No such text.
NoMatch == [ok |-> FALSE]

\* The fields that follow %Y in astropy's isot sub-formats
\* %Y-%m-%dT%H:%M:%S, %Y-%m-%dT%H:%M and %Y-%m-%d: the character before
\* each and the range of its value.
IsotFields ==
    << [sep |-> "-", lo |-> 1, hi |-> 12], [sep |-> "-", lo |-> 1, hi |-> 31],
       [sep |-> "T", lo |-> 0, hi |-> 23], [sep |-> ":", lo |-> 0, hi |-> 59],
       [sep |-> ":", lo |-> 0, hi |-> 61] >>

\* The positions of the characters of s that are not digits, in order.
Breaks(s) ==
    LET P == {i \in 1..Len(s) : ~IsDigit(s[i])}
    IN  [k \in 1..Cardinality(P) |->
            CHOOSE p \in P : Cardinality({q \in P : q < p}) = k - 1]

\* time.strptime with astropy's isot sub-formats, tried in this order:
\* %Y-%m-%dT%H:%M:%S, %Y-%m-%dT%H:%M, %Y-%m-%d.  The whole of s must match:
\* four digits of year, then five, four or two fields of one or two digits,
\* each after its separator and with a value in its range; and the day must
\* exist in the month.
Strptime(s) ==
    LET b == Breaks(s) \o <<Len(s) + 1>>
        field(k) == SubSeq(s, b[k] + 1, b[k + 1] - 1)
        fits(k) == /\ s[b[k]] = IsotFields[k].sep
                   /\ Len(field(k)) \in {1, 2}
                   /\ IntOf(field(k)) \in IsotFields[k].lo..IsotFields[k].hi
        val(k) == IF k < Len(b) THEN IntOf(field(k)) ELSE 0
    IN  IF Len(b) \notin {3, 5, 6} \/ b[1] # 5 \/ \E k \in 1..(Len(b) - 1) : ~fits(k)
        THEN NoMatch
        ELSE IF val(2) > DaysInMonth(IntOf(SubSeq(s, 1, 4)), val(1)) THEN NoMatch
        ELSE [ok |-> TRUE, year |-> IntOf(SubSeq(s, 1, 4)), mon |-> val(1),
              day |-> val(2), hour |-> val(3), min |-> val(4), sec |-> val(5)]

\* The position of the last "." of s, or 0 (str.rindex).
LastDot(s) ==
    IF \E i \in 1..Len(s) : s[i] = "."
    THEN CHOOSE i \in 1..Len(s) : s[i] = "." /\ \A j \in (i + 1)..Len(s) : s[j] # "."
    ELSE 0

\* The digits ds of a decimal fraction from place lo to place hi, as a
\* number (absent places count as 0).
Places(ds, lo, hi) ==
    IntOf([i \in 1..(hi - lo + 1) |->
              IF lo + i - 1 <= Len(ds) THEN ds[lo + i - 1] ELSE "0"])

\* erfa dtf2d without the leap seconds: every day is 86400 s long.
TimeFromFields_no_leap_second(scale, tm, ns, sub) ==
    LET D == MjdOfDate(tm.year, tm.mon, tm.day)
        sod == 3600 * tm.hour + 60 * tm.min + tm.sec
    IN  [Time(scale, IF sod >= DAYSEC THEN Reading(D + 1, sod - DAYSEC, ns)
                     ELSE Reading(D, sod, ns))
         EXCEPT !.sub = sub]

\* erfa dtf2d: the reading of calendar fields on the clock of the scale.
\* Seconds beyond the end of the day run on into the next day.
TimeFromFields(scale, tm, ns, sub) ==
    LET D == MjdOfDate(tm.year, tm.mon, tm.day)
        sod == 3600 * tm.hour + 60 * tm.min + tm.sec
        len == IF scale = "utc" /\ IsLeapDay(D) THEN DAYSEC + 1 ELSE DAYSEC
    IN  [Time(scale, IF sod >= len THEN Reading(D + 1, sod - len, ns)
                     ELSE Reading(D, sod, ns))
         EXCEPT !.sub = sub]

\* Time(s, format="isot", scale=scale) (TimeISOT.parse_string and
\* TimeString.parse_string): a final Z is dropped and needs the utc scale;
\* what follows the last "." is read with float() as the fraction of the
\* second; the rest goes to strptime.  The fractions tried are plain digits
\* (float() reads exponents and blanks too).
TimeFromIsot(s, scale) ==
    LET z == Len(s) > 0 /\ s[Len(s)] = "Z"
        body == IF z THEN SubSeq(s, 1, Len(s) - 1) ELSE s
        dot == LastDot(body)
        head == IF dot = 0 THEN body ELSE SubSeq(body, 1, dot - 1)
        frac == IF dot = 0 THEN <<>> ELSE SubSeq(body, dot + 1, Len(body))
        tm == Strptime(head)
    IN  IF z /\ scale # "utc" THEN Error("Time: Z without the utc scale")
        ELSE IF dot > 0 /\ (frac = <<>> \/ DigitRun(frac, 1) # Len(frac))
             THEN Error("Time: float(fracsec)")
        ELSE IF ~tm.ok THEN Error("Time: does not match isot format")
        ELSE TimeFromFields(scale, tm, Places(frac, 1, 9), Places(frac, 10, 11))

\* t.isot with t.precision = 9
Isot(t) ==
    LET r == Rounded(t)
        date == DateOfMjd(r.day)
        sod == IF r.sod >= DAYSEC THEN DAYSEC - 1 ELSE r.sod
    IN  Decimal(date.year) \o <<"-">> \o Digits(date.mon, 2) \o <<"-">>
        \o Digits(date.day, 2) \o <<"T">> \o Digits(sod \div 3600, 2) \o <<":">>
        \o Digits((sod % 3600) \div 60, 2) \o <<":">>
        \o Digits((sod % 60) + (r.sod - sod), 2) \o <<".">> \o Digits(r.ns, 9)

----------------------------------------------------------------------------
(* Dates as binary64.  t.mjd, t.jd and t.jyear are doubles: the day number *)
(* and the fraction of the day that has gone, rounded to the 53 bits of a  *)
(* double.  For the days modelled (MJD 32768..65535, 1948 to 2038) a       *)
(* double MJD ends 37 binary places after the point, a double JD 31, and a *)
(* double Julian year (1024..2047) 42.  The last rounding of each value is *)
(* modelled; roundings of intermediate results that resolve more are taken *)
(* as exact.                                                               *)

\* The binary places of the fraction of a day kept in a double MJD (HiBits
\* + LoBits), and those more that decide the rounding of a Julian year.
HiBits == 16

LoBits == 21

ExtBits == 7

\* A double date of the format: the day and the fraction
\* (hi * 2^21 + lo) / 2^37 of a day.  For mjd and jd that is the number
\* itself (jd: less 2400000.5).  A jyear is held as the MJD that astropy
\* reads from it (erfa epj2jd: 51544.5 + (jyear - 2000) * 365.25, rounded to
\* a double); distinct jyears give distinct MJDs.
Float64(format, day, hi, lo) ==
    [cls |-> "float", format |-> format, day |-> day, hi |-> hi, lo |-> lo]

\* Twice a time of day [s, ns, sub].
Twice(x) ==
    [s |-> 2 * x.s + (2 * x.ns + (2 * x.sub) \div SUBS) \div NANO,
     ns |-> (2 * x.ns + (2 * x.sub) \div SUBS) % NANO,
     sub |-> (2 * x.sub) % SUBS]

\* 2^k times a time of day (k <= 14), the nanoseconds taken in two parts
\* of five and four digits.
LowNs(x, k) == (x.ns % 100000) * (2 ^ k) + (x.sub * (2 ^ k)) \div SUBS

HighNs(x, k) == (x.ns \div 100000) * (2 ^ k) + LowNs(x, k) \div 100000

Scaled(x, k) ==
    [s |-> x.s * (2 ^ k) + HighNs(x, k) \div 10000,
     ns |-> (HighNs(x, k) % 10000) * 100000 + (LowNs(x, k) % 100000),
     sub |-> (x.sub * (2 ^ k)) % SUBS]

\* The next k binary places of a fraction of a day of len seconds: what is
\* left of the time of day (p.rem, less than a day) is taken 2^k times, the
\* days in that are the places, which go to the end of the field to of p.
Placed(p, k, len, to) ==
    LET x == Scaled(p.rem, k)
    IN  [p EXCEPT !.rem = [x EXCEPT !.s = @ % len],
                  ![to] = @ * (2 ^ k) + x.s \div len]

\* The fraction of its day that the reading t is past: the first n binary
\* places (n >= HiBits + LoBits), and what is left of the time of day (rem)
\* after them.  The places are found eight at a time: two eights are hi, two
\* eights and five are lo, the rest ext.
DayFraction(t, n) ==
    Placed(Placed(Placed(Placed(Placed(Placed(
        [rem |-> [s |-> t.sod, ns |-> t.ns, sub |-> t.sub], hi |-> 0, lo |-> 0, ext |-> 0],
        8, DayLength(t), "hi"), 8, DayLength(t), "hi"),
        8, DayLength(t), "lo"), 8, DayLength(t), "lo"),
        HiBits + LoBits - 32, DayLength(t), "lo"),
        n - HiBits - LoBits, DayLength(t), "ext")

\* More than half of the last place is left.  (Exactly half is never left:
\* the time of day is a whole number of 1/SUBS ns.)
RoundsUp(f, len) == Twice(f.rem).s >= len

\* The double with lo outside 0..2^21-1 carried into hi and the day.
Carried(format, day, hi, lo) ==
    LET h == hi + (IF lo >= 2 ^ LoBits THEN 1 ELSE IF lo < 0 THEN -1 ELSE 0)
    IN  Float64(format,
                day + (IF h >= 2 ^ HiBits THEN 1 ELSE IF h < 0 THEN -1 ELSE 0),
                h % (2 ^ HiBits), lo % (2 ^ LoBits))

\* t.mjd: (jd1 - 2400000.5) + jd2, rounded to 37 places.
Mjd64(t) ==
    LET f == DayFraction(t, HiBits + LoBits)
    IN  Carried("mjd", t.day, f.hi, f.lo + (IF RoundsUp(f, DayLength(t)) THEN 1 ELSE 0))

\* t.jd: jd1 + jd2, rounded to 31 places, 6 fewer than an MJD.
Jd64(t) ==
    LET f == DayFraction(t, HiBits + LoBits)
        r == f.lo % 64
        up == r > 32 \/ (r = 32 /\ f.rem # [s |-> 0, ns |-> 0, sub |-> 0])
              \/ (r = 32 /\ (f.lo \div 64) % 2 = 1)
    IN  Carried("jd", t.day, f.hi, f.lo - r + (IF up THEN 64 ELSE 0))

\* x to the nearest multiple of g, to the even multiple when two are equally
\* near; above tells that the number rounded is a little more than x.
Nearest(x, g, above) ==
    g * ((x \div g)
         + (IF 2 * (x % g) > g \/ (2 * (x % g) = g /\ (above \/ (x \div g) % 2 = 1))
            THEN 1 ELSE 0))

\* 2^-42 Julian year is JulianStep units of 2^-44 day (365.25 * 4); an MJD
\* double has 2^ExtBits of those units in its last place.
JulianStep == 1461

\* 2^44, 2^43 and 2^28 modulo 2 * JulianStep.
Pow44 == 394

Pow43 == 1658

Pow28 == 82

\* The MJD of J2000.0 is 51544.5.
J2000Day == 51544

\* The whole days between J2000.0 and the date day + hi / 2^16.
DaysFromJ2000(day, hi) ==
    IF day > J2000Day \/ (day = J2000Day /\ hi >= 2 ^ (HiBits - 1))
    THEN day - J2000Day - (IF hi >= 2 ^ (HiBits - 1) THEN 0 ELSE 1)
    ELSE J2000Day - day - (IF hi >= 2 ^ (HiBits - 1) THEN 1 ELSE 0)

\* The last place of a double of n days and a fraction, in units of
\* 2^-44 day (1: that or less).
LastPlace(n) == IF n >= 256 THEN 2 ^ (Log2Floor(n) - 8) ELSE 1

\* The last places of a double of the Julian years in n days that make
\* 2^-42 year (doubles below one year: as for one year).
YearPlaces(n) ==
    2 ^ (10 - Log2Floor(IF 4 * n + 2 >= JulianStep THEN (4 * n + 2) \div JulianStep ELSE 1))

\* erfa epj, (jd1 - 2451545) + jd2: the units of 2^-44 day above the 37
\* places of the MJD, rounded to the last place g of the sum (under 256 days,
\* where the sum keeps more than the units: cut).
JyearSum(f, len, g, n) ==
    IF n < 256 THEN f.ext
    ELSE Nearest(2 * f.ext + (IF RoundsUp(f, len) THEN 1 ELSE 0), 2 * g,
                 f.rem # [s |-> 0, ns |-> 0, sub |-> 0]) \div 2

\* The sum in units of 2^-44 day since J2000.0, modulo two steps.
JyearPast(day, f, sum) ==
    (((day - J2000Day) % (2 * JulianStep)) * Pow44 - Pow43 + f.hi * Pow28
     + f.lo * (2 ^ ExtBits) + sum) % (2 * JulianStep)

\* erfa epj, sum / 365.25 and 2000 + the quotient: the quotient is rounded to
\* its own last place, 1/M of a step, and the jyear to whole steps.  1 when
\* the jyear is the end of the step that the sum is in, 0 when it is the
\* start.
JyearStep(past, M) ==
    Nearest((past \div JulianStep) * M
            + Nearest(M * (past % JulianStep), JulianStep, FALSE) \div JulianStep,
            M, FALSE) \div M
    - past \div JulianStep

\* The jyear in units of 2^-44 day from the 37 places of the MJD.
JyearOff(day, f, M, sum) ==
    sum - (JyearPast(day, f, sum) % JulianStep)
    + JulianStep * JyearStep(JyearPast(day, f, sum), M)

\* erfa epj2jd: (jyear - 2000) * 365.25 is rounded to its last place g, and
\* 51544.5 + the product to the 37 places of an MJD double.
JyearRead(day, f, g, off) ==
    Carried("jyear", day, f.hi,
            Nearest(f.lo * (2 ^ ExtBits) + Nearest(off, g, FALSE), 2 ^ ExtBits, FALSE)
            \div (2 ^ ExtBits))

\* t.jyear for the fraction f of the day, n whole days from J2000.0.
JyearOf(day, f, len, n) ==
    JyearRead(day, f, LastPlace(n),
              JyearOff(day, f, YearPlaces(n), JyearSum(f, len, LastPlace(n), n)))

\* t.jyear (erfa epj): 2000 + ((jd1 - 2451545) + jd2) / 365.25.  (Within a
\* year of J2000.0 the doubles of the sum and of the quotient resolve more
\* than is kept here.)
Jyear64(t) ==
    LET f == DayFraction(t, HiBits + LoBits + ExtBits)
    IN  JyearOf(t.day, f, DayLength(t), DaysFromJ2000(t.day, f.hi))

\* A time of day divided by 2^k (k <= 14), to 1/SUBS ns and cut there; the
\* nanoseconds are taken in two parts of four and five digits.
HighPart(x, k) == (x.s % (2 ^ k)) * 10000 + x.ns \div 100000

LowPart(x, k) == (HighPart(x, k) % (2 ^ k)) * 100000 + (x.ns % 100000)

Shrunk(x, k) ==
    [s |-> x.s \div (2 ^ k),
     ns |-> (HighPart(x, k) \div (2 ^ k)) * 100000 + LowPart(x, k) \div (2 ^ k),
     sub |-> ((LowPart(x, k) % (2 ^ k)) * SUBS + x.sub) \div (2 ^ k)]

\* The k binary places bits put before the places that came to the time of
\* day acc, in a day of len seconds.
Taken(acc, bits, k, len) == Shrunk([acc EXCEPT !.s = @ + bits * len], k)

\* Time(val, format=..., scale=...) for a double date val of that format:
\* the time of day is the fraction (hi * 2^21 + lo) / 2^37 of the length of
\* the day.  The places are taken from the last to the first: the last five
\* of lo, the eights of lo, the eights of hi.
TimeOfDay64(val, len) ==
    Taken(Taken(Taken(Taken(Taken(
        [s |-> 0, ns |-> 0, sub |-> 0],
        val.lo % 32, HiBits + LoBits - 32, len), (val.lo \div 32) % 256, 8, len),
        val.lo \div 8192, 8, len), val.hi % 256, 8, len), val.hi \div 256, 8, len)

----------------------------------------------------------------------------
(* DateTime.__init__                                                       *)

\* A keyword argument that was not passed.
Absent == [cls |-> "absent", name |-> "", code |-> -1]

\* A Python float holding a date: whole + num/32, exactly representable.
PyFloat(whole, num) == [cls |-> "float", whole |-> whole, num |-> num]

\* Time(val, format=..., scale=...) for a float date val: the day and the
\* 32nds of the day that val denotes in the format (mjd: val itself; jd:
\* val - 2400000.5; jyear: 51544.5 + (val - 2000) * 365.25).
DateIn32nds(val, format) ==
    CASE format = "mjd" -> val.whole * 32 + val.num
      [] format = "jd" -> (val.whole - 2400001) * 32 + 16 + val.num
      [] format = "jyear" ->
            51544 * 32 + 16 + (((val.whole - 2000) * 32 + val.num) * 1461) \div 4

\* The reading that is the fraction n32/32 of day D.  A UTC day that ends
\* with a leap second has 86401 s, and the fraction is of those.
TimeFromDate32(val, format, scale) ==
    LET t32 == DateIn32nds(val, format)
        D == t32 \div 32
        n32 == t32 % 32
    IN  IF scale = "utc" /\ IsLeapDay(D)
        THEN Time(scale, Reading(D, n32 * 2700, n32 * 31250000))
        ELSE Time(scale, Reading(D, n32 * 2700, 0))

\* Time(val, format=format, scale=scale) for a float val (lines 256-258,
\* 269): one written out in 32nds, or one that get returned for that
\* format.
TimeFromDate(val, format, scale) ==
    IF "whole" \in DOMAIN val THEN TimeFromDate32(val, format, scale)
    ELSE LET len == IF scale = "utc" /\ IsLeapDay(val.day) THEN DAYSEC + 1 ELSE DAYSEC
             tod == TimeOfDay64(val, len)
         IN  [Time(scale, Reading(val.day, tod.s, tod.ns)) EXCEPT !.sub = tod.sub]

\* Lines 241-250 without the test of line 248: deltat is rounded to a whole
\* number of seconds whatever time_arg is.
TimeFromSeconds_always_rounded(time_arg, kwscale) ==
    CASE kwscale.name = "TAI" -> Time("tai", FromEpochSeconds(time_arg, 0))
      [] kwscale.name = "UTC" ->
            LET deltat == RoundHalfUp(TaiMinusUnix(time_arg))
            IN  Time("utc", TaiToUtc(FromEpochSeconds(time_arg + deltat.s, deltat.ns)))
      [] kwscale.name = "TT" -> Time("tt", FromEpochSeconds(time_arg, 0))

\* Lines 235-254: the Time made from the whole seconds of an integer count
\* of nanoseconds.  TAI and TT seconds are taken as they are; for UTC the
\* TAI-UTC offset at that unix second is added, rounded to a whole number of
\* seconds after _EPOCH_INTEGER_LEAP, and the sum is read as TAI seconds.
TimeFromSeconds(time_arg, kwscale) ==
    CASE kwscale.name = "TAI" -> Time("tai", FromEpochSeconds(time_arg, 0))
      [] kwscale.name = "UTC" ->
            LET deltat == IF time_arg > EPOCH_INTEGER_LEAP
                          THEN RoundHalfUp(TaiMinusUnix(time_arg))
                          ELSE TaiMinusUnix(time_arg)
            IN  Time("utc", TaiToUtc(FromEpochSeconds(time_arg + deltat.s, deltat.ns)))
      [] kwscale.name = "TT" -> Time("tt", FromEpochSeconds(time_arg, 0))

\* Lines 271-288: the fraction of a second is put back.  A count >= 0 is
\* re-read from the ISO text of the whole second with the nine digits
\* appended; a count < 0 has the fraction subtracted as a TimeDelta.
WithFraction(Tm, fraction, fracpositive) ==
    IF fraction = 0 THEN Tm
    ELSE IF fracpositive THEN [IsoWholeSecond(Tm) EXCEPT !.ns = fraction]
    ELSE MinusNanos(Tm, fraction)

\* __init__ with line 201 reading Timescale.UTC: a call that passes no scale
\* works in UTC.
init_default_utc(first, pos, kw) ==
    LET popscale == IF Len(pos) \in {1, 2} THEN import_scale(pos[Len(pos)]) ELSE Absent
        popsystem == IF Len(pos) = 2 THEN import_date_system(pos[1]) ELSE Absent
        kwscale == IF Len(pos) \in {1, 2} THEN popscale
                   ELSE IF kw.scale = Absent THEN UTC ELSE kw.scale
        kwsystem == IF Len(pos) = 2 THEN popsystem
                    ELSE IF kw.system = Absent THEN MJD ELSE kw.system
        scale == scale_to_astropy(kwscale)
    IN  IF IsError(popscale) THEN popscale
        ELSE IF IsError(popsystem) THEN popsystem
        ELSE IF scale = "ValueError" THEN Error("_scale_to_astropy")
        ELSE IF Len(pos) > 2 THEN Error("__init__: number of arguments")
        ELSE IF first.cls = "str" THEN TimeFromIsot(FromCompact(first.chars), "utc")
        ELSE IF first.cls = "long"
             THEN WithFraction(TimeFromSeconds(TimeArg(first), kwscale),
                               Fraction(first), ~first.neg)
        ELSE IF first.cls = "float"
             THEN IF system_to_astropy(kwsystem) = "ValueError"
                  THEN Error("_system_to_astropy")
                  ELSE TimeFromDate(first, system_to_astropy(kwsystem), scale)
        ELSE Error("__init__: first argument")

\* __init__ without the else of lines 265-266: of four arguments the last
\* three are ignored.
init_extra_ignored(first, pos, kw) ==
    LET popscale == IF Len(pos) \in {1, 2} THEN import_scale(pos[Len(pos)]) ELSE Absent
        popsystem == IF Len(pos) = 2 THEN import_date_system(pos[1]) ELSE Absent
        kwscale == IF Len(pos) \in {1, 2} THEN popscale
                   ELSE IF kw.scale = Absent THEN TAI ELSE kw.scale
        kwsystem == IF Len(pos) = 2 THEN popsystem
                    ELSE IF kw.system = Absent THEN MJD ELSE kw.system
        scale == scale_to_astropy(kwscale)
    IN  IF IsError(popscale) THEN popscale
        ELSE IF IsError(popsystem) THEN popsystem
        ELSE IF scale = "ValueError" THEN Error("_scale_to_astropy")
        ELSE IF first.cls = "str" THEN TimeFromIsot(FromCompact(first.chars), "utc")
        ELSE IF first.cls = "long"
             THEN WithFraction(TimeFromSeconds(TimeArg(first), kwscale),
                               Fraction(first), ~first.neg)
        ELSE IF first.cls = "float"
             THEN IF system_to_astropy(kwsystem) = "ValueError"
                  THEN Error("_system_to_astropy")
                  ELSE TimeFromDate(first, system_to_astropy(kwsystem), scale)
        ELSE Error("__init__: first argument")

\* __init__ with the pops of lines 195-196 exchanged: of a system and a
\* scale, the system is taken from the end and the scale from before it.
init_pops_exchanged(first, pos, kw) ==
    LET popscale == IF Len(pos) \in {1, 2} THEN import_scale(pos[1]) ELSE Absent
        popsystem == IF Len(pos) = 2 THEN import_date_system(pos[Len(pos)]) ELSE Absent
        kwscale == IF Len(pos) \in {1, 2} THEN popscale
                   ELSE IF kw.scale = Absent THEN TAI ELSE kw.scale
        kwsystem == IF Len(pos) = 2 THEN popsystem
                    ELSE IF kw.system = Absent THEN MJD ELSE kw.system
        scale == scale_to_astropy(kwscale)
    IN  IF IsError(popscale) THEN popscale
        ELSE IF IsError(popsystem) THEN popsystem
        ELSE IF scale = "ValueError" THEN Error("_scale_to_astropy")
        ELSE IF Len(pos) > 2 THEN Error("__init__: number of arguments")
        ELSE IF first.cls = "str" THEN TimeFromIsot(FromCompact(first.chars), "utc")
        ELSE IF first.cls = "long"
             THEN WithFraction(TimeFromSeconds(TimeArg(first), kwscale),
                               Fraction(first), ~first.neg)
        ELSE IF first.cls = "float"
             THEN IF system_to_astropy(kwsystem) = "ValueError"
                  THEN Error("_system_to_astropy")
                  ELSE TimeFromDate(first, system_to_astropy(kwsystem), scale)
        ELSE Error("__init__: first argument")

\* DateTime.__init__(*args, **kwargs) for args = (first,) + pos, where first
\* is an integer, a float or a string, pos the positional arguments after it
\* (at most three) and kw the keyword arguments.  The value is
\* self._internal, or the error raised.  A string is read in the utc scale
\* whatever scale is passed (line 214).
init(first, pos, kw) ==
    LET popscale == IF Len(pos) \in {1, 2} THEN import_scale(pos[Len(pos)]) ELSE Absent
        popsystem == IF Len(pos) = 2 THEN import_date_system(pos[1]) ELSE Absent
        kwscale == IF Len(pos) \in {1, 2} THEN popscale
                   ELSE IF kw.scale = Absent THEN TAI ELSE kw.scale
        kwsystem == IF Len(pos) = 2 THEN popsystem
                    ELSE IF kw.system = Absent THEN MJD ELSE kw.system
        scale == scale_to_astropy(kwscale)
    IN  IF IsError(popscale) THEN popscale
        ELSE IF IsError(popsystem) THEN popsystem
        ELSE IF scale = "ValueError" THEN Error("_scale_to_astropy")
        ELSE IF Len(pos) > 2 THEN Error("__init__: number of arguments")
        ELSE IF first.cls = "str" THEN TimeFromIsot(FromCompact(first.chars), "utc")
        ELSE IF first.cls = "long"
             THEN WithFraction(TimeFromSeconds(TimeArg(first), kwscale),
                               Fraction(first), ~first.neg)
        ELSE IF first.cls = "float"
             THEN IF system_to_astropy(kwsystem) = "ValueError"
                  THEN Error("_system_to_astropy")
                  ELSE TimeFromDate(first, system_to_astropy(kwsystem), scale)
        ELSE Error("__init__: first argument")

\* "{:04}-{:02}-{:02}T{:02}:{:02}:{:02}".format(*args) for six integers
\* that are not negative (line 263).
IsoOfFields(args) ==
    Padded(args[1].code, 4) \o <<"-">> \o Padded(args[2].code, 2) \o <<"-">>
    \o Padded(args[3].code, 2) \o <<"T">> \o Padded(args[4].code, 2) \o <<":">>
    \o Padded(args[5].code, 2) \o <<":">> \o Padded(args[6].code, 2)

\* DateTime.__init__(*args, **kwargs) for five or more positional
\* arguments: with seven the last is the scale, with eight the last two are
\* the system and the scale (lines 189-196); six are left for the calendar
\* fields, which are read in that scale (lines 261-269).
init_fields(args, kw) ==
    LET n == Len(args)
        popscale == IF n \in {7, 8} THEN import_scale(args[n]) ELSE Absent
        popsystem == IF n = 8 THEN import_date_system(args[n - 1]) ELSE Absent
        kwscale == IF n \in {7, 8} THEN popscale
                   ELSE IF kw.scale = Absent THEN TAI ELSE kw.scale
        scale == scale_to_astropy(kwscale)
    IN  IF IsError(popscale) THEN popscale
        ELSE IF IsError(popsystem) THEN popsystem
        ELSE IF scale = "ValueError" THEN Error("_scale_to_astropy")
        ELSE IF n \in {6, 7, 8} THEN TimeFromIsot(IsoOfFields(args), scale)
        ELSE Error("__init__: number of arguments")

\* DateTime(first, *pos, **kw)
DateTime(first, pos, kw) ==
    IF Len(pos) <= 3 THEN init(first, pos, kw) ELSE init_fields(<<first>> \o pos, kw)

----------------------------------------------------------------------------
(* The accessors                                                           *)

\* nsecs without its two TT exits: the test of line 312 is gone and the
\* final else of line 330 reads the TAI count.
nsecs_tt_read_as_tai(internal, args) ==
    LET scale == IF Len(args) > 0 THEN import_scale(args[1]) ELSE TAI
    IN  IF IsError(scale) THEN scale
        ELSE LET integer == IF scale = UTC THEN UnixInt(internal)
                            ELSE TaiUnixInt(internal)
                 iso == IF UnixAfter(internal, EPOCH_INTEGER_LEAP)
                        THEN AsScale(internal, "tai")
                        ELSE AsScale(internal, "utc")
             IN  PyLong(integer < 0,
                        IF integer < 0 THEN 0 - integer ELSE integer,
                        Rounded(iso).ns)

\* nsecs with line 318 reading Timescale.UTC: a call that passes no scale
\* counts in UTC.
nsecs_default_utc(internal, args) ==
    IF Len(args) > 0 /\ args[1] = TT THEN Error("nsecs: TT")
    ELSE LET scale == IF Len(args) > 0 THEN import_scale(args[1]) ELSE UTC
         IN  IF IsError(scale) THEN scale
             ELSE IF scale \notin {TAI, UTC} THEN Error("nsecs: timescale")
             ELSE LET integer == IF scale = TAI THEN TaiUnixInt(internal)
                                 ELSE UnixInt(internal)
                      iso == IF UnixAfter(internal, EPOCH_INTEGER_LEAP)
                             THEN AsScale(internal, "tai")
                             ELSE AsScale(internal, "utc")
                  IN  PyLong(integer < 0,
                             IF integer < 0 THEN 0 - integer ELSE integer,
                             Rounded(iso).ns)

\* DateTime.nsecs(*args): args is the tuple of positional arguments.
nsecs(internal, args) ==
    IF Len(args) > 0 /\ args[1] = TT THEN Error("nsecs: TT")
    ELSE LET scale == IF Len(args) > 0 THEN import_scale(args[1]) ELSE TAI
         IN  IF IsError(scale) THEN scale
             ELSE IF scale \notin {TAI, UTC} THEN Error("nsecs: timescale")
             ELSE LET iso == IF UnixAfter(internal, EPOCH_INTEGER_LEAP)
                             THEN AsScale(internal, "tai")
                             ELSE AsScale(internal, "utc")
                  IN  CHOOSE n \in
                          {PyLong(integer < 0,
                                  IF integer < 0 THEN 0 - integer ELSE integer,
                                  Rounded(iso).ns) :
                             integer \in {IF scale = TAI THEN TaiUnixInt(internal)
                                          ELSE UnixInt(internal)}} : TRUE

\* DateTime._in_timescale(scale): the scale is compared by identity with the
\* enum members.
in_timescale(internal, scale) ==
    IF scale = UTC THEN AsScale(internal, "utc")
    ELSE IF scale = TAI THEN AsScale(internal, "tai")
    ELSE IF scale = TT THEN AsScale(internal, "tt")
    ELSE Error("_in_timescale")

\* DateTime._in_format(t, system): t.mjd, t.jd or t.jyear, the double that
\* astropy computes from the reading t.
in_format(t, system) ==
    IF system = MJD THEN Mjd64(t)
    ELSE IF system = JD THEN Jd64(t)
    ELSE IF system = EPOCH THEN Jyear64(t)
    ELSE Error("_in_format")

\* DateTime.get(*args)
get(internal, args) ==
    LET scale == IF Len(args) = 2 THEN import_scale(args[2]) ELSE TAI
        system == IF Len(args) > 0 THEN import_date_system(args[1]) ELSE MJD
    IN  IF IsError(scale) THEN scale
        ELSE IF IsError(system) THEN system
        ELSE IF IsError(in_timescale(internal, scale)) THEN in_timescale(internal, scale)
        ELSE in_format(in_timescale(internal, scale), system)

\* mjd without lines 372-373: the scale stays TAI whatever is passed.
mjd_always_tai(internal, args) ==
    LET t == in_timescale(internal, TAI)
    IN  IF IsError(t) THEN t ELSE Mjd64(t)

\* DateTime.mjd(*args): the scale is used as it comes.
mjd(internal, args) ==
    LET scale == IF Len(args) > 0 THEN args[1] ELSE TAI
        t == in_timescale(internal, scale)
    IN  IF IsError(t) THEN t ELSE Mjd64(t)

\* Time.__eq__ (DateTime.__eq__): the right-hand side is brought to the scale
\* of the left-hand side and the two readings are compared.
eq(lhs, rhs) == AsScale(rhs, lhs.scale) = lhs

\* DateTime.__ne__
ne(lhs, rhs) == AsScale(rhs, lhs.scale) # lhs

\* __str__ without the .utc of line 390: the time is written as the clock of
\* the object's own scale reads it.
str_in_own_scale(internal) ==
    PyStr(IF internal.scale = "utc" THEN Isot(internal) \o <<"Z">> ELSE Isot(internal))

\* DateTime.__str__: the UTC time to nine decimals, and a Z because the
\* scale of t is then utc.
str(internal) ==
    LET t == AsScale(internal, "utc")
    IN  PyStr(IF t.scale = "utc" THEN Isot(t) \o <<"Z">> ELSE Isot(t))

\* DateTime.toString
toString(internal) == str(internal)

\* str(n) for a Python integer of nanoseconds
LongText(n) ==
    (IF n.neg /\ (n.s > 0 \/ n.f > 0) THEN <<"-">> ELSE <<>>)
    \o (IF n.s = 0 THEN Decimal(n.f)
        ELSE (IF n.s >= NANO THEN Digits(n.s, 10) ELSE Decimal(n.s)) \o Digits(n.f, 9))

\* DateTime.__repr__: the class name and the TAI nanoseconds
repr(internal) ==
    CHOOSE text \in
        {IF IsError(n) THEN n
         ELSE PyStr(<<"D", "a", "t", "e", "T", "i", "m", "e", "(">> \o LongText(n) \o <<")">>) :
            n \in {nsecs(internal, <<TAI>>)}} : TRUE

\* nsecs/10**9 (line 407; true division, the quotient correctly rounded to a
\* binary64): the whole seconds below the quotient and the nanoseconds above
\* them.  The quotient is a whole number, s + 1, when 1 - f/10^9 is at most
\* half a unit in the last place of s + 1.
TrueDivNano(n) ==
    LET sh == IF n.s = 0 THEN 53 ELSE 53 - Log2Floor(n.s)
        up == sh <= 30 /\ NANO - n.f <= NANO \div (2 ^ sh)
        a == IF up THEN [s |-> n.s + 1, f |-> 0] ELSE [s |-> n.s, f |-> n.f]
    IN  IF n.neg /\ a.f > 0 THEN [s |-> 0 - a.s - 1, f |-> NANO - a.f]
        ELSE [s |-> IF n.neg THEN 0 - a.s ELSE a.s, f |-> a.f]

\* The values of the environment variable TZ that the tests run under ("":
\* not set), and the seconds that the standard time of each is ahead of UTC.
Zones == {"", "Europe/London", "GMT0BST", "PST8PDT"}

ZoneOffset(tz) == IF tz = "PST8PDT" THEN 0 - 8 * 3600 ELSE 0

\* A datetime.datetime: the calendar date and the time of day of second s
\* after the epoch.  frac stands for the microsecond field: the nanoseconds
\* of the timestamp that it is rounded from.
Datetime(s, frac) ==
    LET date == DateOfMjd(EPOCH_MJD + s \div DAYSEC)
    IN  [cls |-> "datetime", year |-> date.year, month |-> date.mon, day |-> date.day,
         hour |-> (s % DAYSEC) \div 3600, minute |-> ((s % DAYSEC) % 3600) \div 60,
         second |-> s % 60, frac |-> frac]

\* datetime.datetime.fromtimestamp(ts): the local time of the zone TZ names
\* (its standard time).
fromtimestamp(ts, tz) == Datetime(ts.s + ZoneOffset(tz), ts.f)

\* datetime.datetime.utcfromtimestamp(ts) in a process whose TZ is tz: the
\* fields are those of gmtime, which does not read TZ.
utcfromtimestamp(ts, tz) == Datetime(ts.s, ts.f)

\* DateTime.toPython(timescale=None) in a process whose TZ is tz
toPython(internal, args, tz) ==
    CHOOSE dt \in
        {IF IsError(n) THEN n
         ELSE CHOOSE d \in {utcfromtimestamp(ts, tz) : ts \in {TrueDivNano(n)}} : TRUE :
            n \in {nsecs(internal, args)}} : TRUE

\* __str__ with self._internal = t after line 386: the object keeps the UTC
\* Time it was rendered from.
self_after_str_keeps_utc(op, internal) ==
    IF op \in {"str", "toString"} THEN AsScale(internal, "utc") ELSE internal

\* self._internal when the method op returns.  nsecs and __str__ work on a
\* copy (lines 322, 386) and write precision to the copy (lines 335, 387);
\* .utc, .tai and .tt (lines 141-145, 337-339) and == and != (lines 379,
\* 382) make new Times; no method assigns self._internal.
self_after(op, internal) == internal

----------------------------------------------------------------------------
(* The program: DateTime objects are made and their methods are called.    *)

\* At most MaxObjects DateTime objects are alive.
MaxObjects == 2

\* Integers 0..MaxCode are passed where a scale or a date system goes.
MaxCode == 3

\* The integer nanosecond counts passed to the constructor: around the
\* epoch (before 1972), on 1989-12-31, a day that ends with a leap second
\* (unix seconds 631065600..631151999), and in 2007.
NanosSamples ==
    { PyLong(FALSE, 0, 0), PyLong(FALSE, 0, 1), PyLong(FALSE, 1, 0),
      PyLong(FALSE, 631065601, 0), PyLong(FALSE, 631151998, 0),
      PyLong(FALSE, 631152023, 0),
      PyLong(FALSE, 1192755473, 0), PyLong(FALSE, 1192755473, 1),
      PyLong(FALSE, 1192755473, 999999999), PyLong(FALSE, 1192755506, 0),
      PyLong(FALSE, 1192755507, 999999999), PyLong(FALSE, 1192755538, 184000000),
      PyLong(TRUE, 0, 1), PyLong(TRUE, 1, 0), PyLong(TRUE, 1, 500000000) }

\* The float dates passed to the constructor, each with the name of the date
\* system it is a date in: MJD 45205.125, MJD 47892.0, MJD 47891.5 (noon of
\* a day that ends with a leap second), JD 2445205.625, J2000.125.
DateSamples ==
    { [val |-> PyFloat(45205, 4), system |-> "MJD"],
      [val |-> PyFloat(47892, 0), system |-> "MJD"],
      [val |-> PyFloat(47891, 16), system |-> "MJD"],
      [val |-> PyFloat(2445205, 20), system |-> "JD"],
      [val |-> PyFloat(2000, 4), system |-> "EPOCH"] }

ScaleArgs == Timescale \cup {PyInt(c) : c \in 0..MaxCode}

SystemArgs == DateSystem \cup {PyInt(c) : c \in 0..MaxCode}

NoKw == [scale |-> Absent, system |-> Absent]

\* The ways the arguments after the first are passed: none, a scale, a
\* system and a scale, three more arguments, or keywords.
Passings ==
    {[pos |-> <<>>, kw |-> NoKw]}
    \cup {[pos |-> <<sc>>, kw |-> NoKw] : sc \in ScaleArgs}
    \cup {[pos |-> <<sy, sc>>, kw |-> NoKw] : sy \in SystemArgs, sc \in ScaleArgs}
    \cup {[pos |-> <<MJD, TAI, TAI>>, kw |-> NoKw]}
    \cup {[pos |-> <<>>, kw |-> [scale |-> sc, system |-> sy]] :
            sc \in ScaleArgs \cup {Absent}, sy \in SystemArgs \cup {Absent}}

\* Passing nothing, or a scale as an enum member.
PlainPassings ==
    {[pos |-> <<>>, kw |-> NoKw]} \cup {[pos |-> <<sc>>, kw |-> NoKw] : sc \in Timescale}

\* Passing a system and a scale as enum members.
EnumPassings ==
    PlainPassings
    \cup {[pos |-> <<sy, sc>>, kw |-> NoKw] : sy \in DateSystem, sc \in Timescale}

\* Every sample is passed with enum members; every other way of passing is
\* tried with one integer and one float.
ProbeNanos == PyLong(FALSE, 1192755473, 1)

ProbeDate == PyFloat(45205, 4)

\* The strings passed to the constructor that are dates in ISO 8601 form:
\*   2009-04-02T07:26:39.314159265Z       nine fractional digits
\*   20090402T072639.314159265Z           the same in the compact form
\*   2009-04-02T07:26:39Z                 no fraction
\*   20090402T072639Z                     the same in the compact form
\*   19700101T000000Z                     the epoch
\*   1970-01-01T00:00:00Z                 the same in the extended form
\*   2004-03-01T12:39:45.1Z               one fractional digit
\*   2004-03-01T12:39:45.000000000Z       nine zeros
\*   2004-03-01T12:39:45.000000001Z       one nanosecond
\*   2004-03-01T12:39:45.0000000001Z      ten digits, the tenth below a half
\*   2004-03-01T12:39:45.0000000009Z      ten digits, the tenth above a half
\*   20040301T123945.0000000009Z          the same in the compact form
\*   1969-03-01T12:39:45.000000001Z       before 1970
\*   1971-06-15T00:00:32.5Z               before 1972
\*   1989-12-31T23:59:60Z                 a leap second
DateStrings ==
    { PyStr(<<"2", "0", "0", "9", "-", "0", "4", "-", "0", "2", "T", "0", "7", ":", "2", "6", ":", "3", "9", ".", "3", "1", "4", "1", "5", "9", "2", "6", "5", "Z">>),
      PyStr(<<"2", "0", "0", "9", "0", "4", "0", "2", "T", "0", "7", "2", "6", "3", "9", ".", "3", "1", "4", "1", "5", "9", "2", "6", "5", "Z">>),
      PyStr(<<"2", "0", "0", "9", "-", "0", "4", "-", "0", "2", "T", "0", "7", ":", "2", "6", ":", "3", "9", "Z">>),
      PyStr(<<"2", "0", "0", "9", "0", "4", "0", "2", "T", "0", "7", "2", "6", "3", "9", "Z">>),
      PyStr(<<"1", "9", "7", "0", "0", "1", "0", "1", "T", "0", "0", "0", "0", "0", "0", "Z">>),
      PyStr(<<"1", "9", "7", "0", "-", "0", "1", "-", "0", "1", "T", "0", "0", ":", "0", "0", ":", "0", "0", "Z">>),
      PyStr(<<"2", "0", "0", "4", "-", "0", "3", "-", "0", "1", "T", "1", "2", ":", "3", "9", ":", "4", "5", ".", "1", "Z">>),
      PyStr(<<"2", "0", "0", "4", "-", "0", "3", "-", "0", "1", "T", "1", "2", ":", "3", "9", ":", "4", "5", ".", "0", "0", "0", "0", "0", "0", "0", "0", "0", "Z">>),
      PyStr(<<"2", "0", "0", "4", "-", "0", "3", "-", "0", "1", "T", "1", "2", ":", "3", "9", ":", "4", "5", ".", "0", "0", "0", "0", "0", "0", "0", "0", "1", "Z">>),
      PyStr(<<"2", "0", "0", "4", "-", "0", "3", "-", "0", "1", "T", "1", "2", ":", "3", "9", ":", "4", "5", ".", "0", "0", "0", "0", "0", "0", "0", "0", "0", "1", "Z">>),
      PyStr(<<"2", "0", "0", "4", "-", "0", "3", "-", "0", "1", "T", "1", "2", ":", "3", "9", ":", "4", "5", ".", "0", "0", "0", "0", "0", "0", "0", "0", "0", "9", "Z">>),
      PyStr(<<"2", "0", "0", "4", "0", "3", "0", "1", "T", "1", "2", "3", "9", "4", "5", ".", "0", "0", "0", "0", "0", "0", "0", "0", "0", "9", "Z">>),
      PyStr(<<"1", "9", "6", "9", "-", "0", "3", "-", "0", "1", "T", "1", "2", ":", "3", "9", ":", "4", "5", ".", "0", "0", "0", "0", "0", "0", "0", "0", "1", "Z">>),
      PyStr(<<"1", "9", "7", "1", "-", "0", "6", "-", "1", "5", "T", "0", "0", ":", "0", "0", ":", "3", "2", ".", "5", "Z">>),
      PyStr(<<"1", "9", "8", "9", "-", "1", "2", "-", "3", "1", "T", "2", "3", ":", "5", "9", ":", "6", "0", "Z">>) }

\* Strings that are not a UTC date and time in either form:
\*   20090401                             no time
\*   20090401T                            no time after the T
\*   2009-04-01T                          no time after the T, extended
\*   2009-04-01T23:36:05                  no Z
\*   20090401T23:36:05-0700               a zone offset
\*   2009/04/01T23:36:05Z                 slashes
\*   x20090402T072639Zy                   characters around a compact form
\*   2009-04-02T07:26:39Zx                characters after an extended form
\*   x2009-04-02T07:26:39Z                characters before an extended form
OtherStrings ==
    { PyStr(<<"2", "0", "0", "9", "0", "4", "0", "1">>),
      PyStr(<<"2", "0", "0", "9", "0", "4", "0", "1", "T">>),
      PyStr(<<"2", "0", "0", "9", "-", "0", "4", "-", "0", "1", "T">>),
      PyStr(<<"2", "0", "0", "9", "-", "0", "4", "-", "0", "1", "T", "2", "3", ":", "3", "6", ":", "0", "5">>),
      PyStr(<<"2", "0", "0", "9", "0", "4", "0", "1", "T", "2", "3", ":", "3", "6", ":", "0", "5", "-", "0", "7", "0", "0">>),
      PyStr(<<"2", "0", "0", "9", "/", "0", "4", "/", "0", "1", "T", "2", "3", ":", "3", "6", ":", "0", "5", "Z">>),
      PyStr(<<"x", "2", "0", "0", "9", "0", "4", "0", "2", "T", "0", "7", "2", "6", "3", "9", "Z", "y">>),
      PyStr(<<"2", "0", "0", "9", "-", "0", "4", "-", "0", "2", "T", "0", "7", ":", "2", "6", ":", "3", "9", "Z", "x">>),
      PyStr(<<"x", "2", "0", "0", "9", "-", "0", "4", "-", "0", "2", "T", "0", "7", ":", "2", "6", ":", "3", "9", "Z">>) }

TextSamples == DateStrings \cup OtherStrings

\* Calendar fields passed to the constructor: a summer evening, the epoch, a
\* leap second, and the 30th of February.
FieldSamples ==
    { <<PyInt(2012), PyInt(7), PyInt(19), PyInt(18), PyInt(29), PyInt(33)>>,
      <<PyInt(1970), PyInt(1), PyInt(1), PyInt(0), PyInt(0), PyInt(0)>>,
      <<PyInt(1989), PyInt(12), PyInt(31), PyInt(23), PyInt(59), PyInt(60)>>,
      <<PyInt(2009), PyInt(2), PyInt(30), PyInt(0), PyInt(0), PyInt(0)>> }

\* The argument lists made of calendar fields: four, five or six of them,
\* six and a scale, six and a system and a scale, six and three more.
FieldArgs ==
    {SubSeq(f, 1, n) : f \in FieldSamples, n \in {4, 5, 6}}
    \cup {f \o <<sc>> : f \in FieldSamples, sc \in ScaleArgs}
    \cup {f \o <<sy, sc>> : f \in FieldSamples, sy \in DateSystem, sc \in Timescale}
    \cup {f \o <<MJD, UTC, UTC>> : f \in FieldSamples}

\* heap: the DateTime objects made so far, each with self._internal, its
\* address (id) and, for reference, the value and scale it was made from.
\* ret: the last call and what it returned or raised.
\* tz: the environment variable TZ of the process ("": not set).
VARIABLES heap, ret, tz, frames, locals

vars == <<heap, ret, tz, frames, locals>>

Addresses == 1..MaxObjects

FreeAddresses == Addresses \ {heap[i].addr : i \in 1..Len(heap)}

Call(op, obj, rhs, first, pos, kw, out) ==
    [op |-> op, obj |-> obj, rhs |-> rhs, first |-> first, pos |-> pos, kw |-> kw,
     out |-> out]

\* The scale a successful constructor call worked in: utc for a string,
\* the last argument when a scale is passed, the keyword or TAI otherwise.
MadeScale(first, pos, kw) ==
    IF first.cls = "str" THEN UTC
    ELSE IF Len(pos) \in {1, 2, 6, 7} THEN import_scale(pos[Len(pos)])
    ELSE IF kw.scale = Absent THEN TAI ELSE kw.scale

\* The threads of the process.  frames holds the frame of every thread that
\* is inside an accessor, and locals what the name t of a frame is bound to.
NumThreads == 2

Threads == 1..NumThreads

Init ==
    /\ heap = <<>>
    /\ tz = ""
    /\ frames = <<>>
    /\ locals = <<>>
    /\ ret = Call("none", 0, 0, Absent, <<>>, NoKw, Absent)

\* DateTime(first, ...): the object exists only if __init__ returns. An
\* object made from calendar fields keeps the six of them in first.
Construct(kind, first, p, addr) ==
    \E internal \in {DateTime(first, p.pos, p.kw)} :
        IF IsError(internal)
        THEN /\ heap' = heap
             /\ ret' = Call("DateTime", 0, 0, first, p.pos, p.kw, internal)
        ELSE /\ heap' = Append(heap, [internal |-> internal, addr |-> addr,
                                      kind |-> kind,
                                      first |-> IF kind = "fields"
                                                THEN <<first>> \o SubSeq(p.pos, 1, 5)
                                                ELSE first,
                                      scale |-> MadeScale(first, p.pos, p.kw)])
             /\ ret' = Call("DateTime", Len(heap) + 1, 0, first, p.pos, p.kw,
                            [cls |-> "DateTime", name |-> "", code |-> Len(heap) + 1])

\* The float d is a date of the system that p passes (MJD when none is
\* passed), or p passes no valid system.
DateMatches(d, p) ==
    LET sy == IF Len(p.pos) = 2 THEN import_date_system(p.pos[1])
              ELSE IF p.kw.system = Absent THEN MJD ELSE p.kw.system
    IN  sy.cls = "DateSystem" => sy.name = d.system

\* ts = DateTime(nsecs, ...)
ConstructNanos ==
    /\ heap = <<>>
    /\ UNCHANGED <<tz, frames, locals>>
    /\ \E first \in NanosSamples, p \in Passings, addr \in FreeAddresses :
          /\ p \in EnumPassings \/ first = ProbeNanos
          /\ Construct("nanos", first, p, addr)

\* ts = DateTime(date, ...)
ConstructDate ==
    /\ heap = <<>>
    /\ UNCHANGED <<tz, frames, locals>>
    /\ \E d \in DateSamples, p \in Passings, addr \in FreeAddresses :
          /\ p \in EnumPassings \/ d.val = ProbeDate
          /\ DateMatches(d, p)
          /\ Construct("date", d.val, p, addr)

\* ts = DateTime(): args becomes [0]
ConstructDefault ==
    /\ heap = <<>>
    /\ UNCHANGED <<tz, frames, locals>>
    /\ \E addr \in FreeAddresses :
          Construct("default", PyLong(FALSE, 0, 0), [pos |-> <<>>, kw |-> NoKw], addr)

\* ts = DateTime(string, ...)
ConstructText ==
    /\ heap = <<>>
    /\ UNCHANGED <<tz, frames, locals>>
    /\ \E first \in TextSamples, p \in PlainPassings, addr \in FreeAddresses :
          Construct("text", first, p, addr)

\* ts = DateTime(year, month, day, hour, minute, second, ...), and the calls
\* with other numbers of integers
ConstructFields ==
    /\ heap = <<>>
    /\ UNCHANGED <<tz, frames, locals>>
    /\ \E args \in FieldArgs, addr \in FreeAddresses :
          Construct("fields", args[1], [pos |-> Tail(args), kw |-> NoKw], addr)

\* ts.nsecs(), ts.nsecs(scale)
CallNsecs ==
    \E i \in 1..Len(heap), args \in {<<>>} \cup {<<sc>> : sc \in ScaleArgs} :
        /\ ret' = Call("nsecs", i, 0, Absent, args, NoKw, nsecs(heap[i].internal, args))
        /\ heap' = [heap EXCEPT ![i].internal = self_after("nsecs", @)]
        /\ UNCHANGED <<tz, frames, locals>>

\* ts.get(), ts.get(system), ts.get(system, scale)
CallGet ==
    \E i \in 1..Len(heap),
       args \in {<<>>} \cup {<<sy>> : sy \in SystemArgs}
                \cup {<<sy, sc>> : sy \in SystemArgs, sc \in ScaleArgs} :
        /\ ret' = Call("get", i, 0, Absent, args, NoKw, get(heap[i].internal, args))
        /\ heap' = [heap EXCEPT ![i].internal = self_after("get", @)]
        /\ UNCHANGED <<tz, frames, locals>>

\* ts.mjd(), ts.mjd(scale)
CallMjd ==
    \E i \in 1..Len(heap), args \in {<<>>} \cup {<<sc>> : sc \in ScaleArgs} :
        /\ ret' = Call("mjd", i, 0, Absent, args, NoKw, mjd(heap[i].internal, args))
        /\ heap' = [heap EXCEPT ![i].internal = self_after("mjd", @)]
        /\ UNCHANGED <<tz, frames, locals>>

\* ts.toString(), str(ts)
CallToString ==
    \E i \in 1..Len(heap), op \in {"toString", "str"} :
        /\ ret' = Call(op, i, 0, Absent, <<>>, NoKw,
                       IF op = "str" THEN str(heap[i].internal)
                       ELSE toString(heap[i].internal))
        /\ heap' = [heap EXCEPT ![i].internal = self_after(op, @)]
        /\ UNCHANGED <<tz, frames, locals>>

\* repr(ts)
CallRepr ==
    \E i \in 1..Len(heap) :
        /\ ret' = Call("repr", i, 0, Absent, <<>>, NoKw, repr(heap[i].internal))
        /\ heap' = [heap EXCEPT ![i].internal = self_after("repr", @)]
        /\ UNCHANGED <<tz, frames, locals>>

\* ts.toPython(), ts.toPython(timescale)
CallToPython ==
    \E i \in 1..Len(heap), args \in {<<>>} \cup {<<sc>> : sc \in Timescale} :
        /\ ret' = Call("toPython", i, 0, Absent, args, NoKw,
                       toPython(heap[i].internal, args, tz))
        /\ heap' = [heap EXCEPT ![i].internal = self_after("toPython", @)]
        /\ UNCHANGED <<tz, frames, locals>>

Bool(b) == [cls |-> "bool", name |-> IF b THEN "True" ELSE "False", code |-> IF b THEN 1 ELSE 0]

\* a == b
CallEq ==
    \E i, j \in 1..Len(heap) :
        /\ ret' = Call("eq", i, j, Absent, <<>>, NoKw,
                       Bool(eq(heap[i].internal, heap[j].internal)))
        /\ heap' = [heap EXCEPT ![i].internal = self_after("eq", @),
                                ![j].internal = self_after("eq", @)]
        /\ UNCHANGED <<tz, frames, locals>>

\* a != b
CallNe ==
    \E i, j \in 1..Len(heap) :
        /\ ret' = Call("ne", i, j, Absent, <<>>, NoKw,
                       Bool(ne(heap[i].internal, heap[j].internal)))
        /\ heap' = [heap EXCEPT ![i].internal = self_after("ne", @),
                                ![j].internal = self_after("ne", @)]
        /\ UNCHANGED <<tz, frames, locals>>

\* A client that makes one DateTime and calls its accessors.
Next ==
    \/ ConstructNanos
    \/ ConstructDate
    \/ ConstructDefault
    \/ ConstructText
    \/ ConstructFields
    \/ CallNsecs
    \/ CallGet
    \/ CallMjd
    \/ CallToString
    \/ CallRepr
    \/ CallToPython
    \/ CallEq
    \/ CallNe

Spec == Init /\ [][Next]_vars

\* A client that makes up to MaxObjects DateTimes, from integer nanoseconds
\* and a scale, from strings, from nothing or from the float date of one it
\* has, and compares them.
ConstructAnother ==
    /\ Len(heap) < MaxObjects
    /\ UNCHANGED <<tz, frames, locals>>
    /\ \E first \in NanosSamples, sc \in Timescale, addr \in FreeAddresses :
          Construct("nanos", first, [pos |-> <<sc>>, kw |-> NoKw], addr)

\* ts = DateTime(string)
ConstructAnotherText ==
    /\ Len(heap) < MaxObjects
    /\ UNCHANGED <<tz, frames, locals>>
    /\ \E first \in DateStrings, addr \in FreeAddresses :
          Construct("text", first, [pos |-> <<>>, kw |-> NoKw], addr)

\* ts = DateTime()
ConstructAnotherDefault ==
    /\ Len(heap) < MaxObjects
    /\ UNCHANGED <<tz, frames, locals>>
    /\ \E addr \in FreeAddresses :
          Construct("default", PyLong(FALSE, 0, 0), [pos |-> <<>>, kw |-> NoKw], addr)

\* b = DateTime(a.get(system, scale), system, scale); b == a
ConstructFromGet ==
    /\ Len(heap) < MaxObjects
    /\ UNCHANGED <<tz, frames, locals>>
    /\ \E i \in 1..Len(heap), sy \in DateSystem, sc \in Timescale, addr \in FreeAddresses :
          \E val \in {get(heap[i].internal, <<sy, sc>>)} :
            \E internal \in {DateTime(val, <<sy, sc>>, NoKw)} :
              /\ heap' = Append(heap, [internal |-> internal, addr |-> addr, kind |-> "got",
                                       first |-> val, scale |-> sc])
              /\ ret' = Call("fromGet", Len(heap) + 1, i, val, <<sy, sc>>, NoKw,
                             Bool(eq(internal, heap[i].internal)))

\* a < b: DateTime defines neither __lt__ nor __cmp__, and Python 2 then
\* orders two instances of the class by their addresses.
lt(a, b) == a.addr < b.addr

CallLt ==
    \E i, j \in 1..Len(heap) :
        /\ ret' = Call("lt", i, j, Absent, <<>>, NoKw, Bool(lt(heap[i], heap[j])))
        /\ UNCHANGED <<heap, tz, frames, locals>>

NextPair ==
    \/ ConstructAnother
    \/ ConstructAnotherText
    \/ ConstructAnotherDefault
    \/ ConstructFromGet
    \/ CallEq
    \/ CallNe
    \/ CallLt
    \/ CallToString

SpecPair == Init /\ [][NextPair]_vars

----------------------------------------------------------------------------
(* Properties of the specification, stated over the last call (ret) and the *)
(* objects it was made on (heap).                                           *)

\* The value of a Python integer of nanoseconds as whole seconds (floor) and
\* the nanoseconds above them.
Floor(n) ==
    IF n.neg /\ n.f > 0 THEN [s |-> 0 - n.s - 1, ns |-> NANO - n.f]
    ELSE [s |-> IF n.neg THEN 0 - n.s ELSE n.s, ns |-> n.f]

\* a - b for two Python integers of nanoseconds, as seconds and nanoseconds.
Minus(a, b) ==
    LET dn == Floor(a).ns - Floor(b).ns
    IN  [s |-> Floor(a).s - Floor(b).s + (dn \div NANO), ns |-> dn % NANO]

\* a < b for two Python integers of nanoseconds.
Less(a, b) ==
    \/ Floor(a).s < Floor(b).s
    \/ Floor(a).s = Floor(b).s /\ Floor(a).ns < Floor(b).ns

\* The last call was method op on a DateTime made from integer nanoseconds.
OnNanos(op) == ret.op = op /\ heap[ret.obj].kind = "nanos"

\* The enum member that an integer code 0, 1 or 2 stands for.
AsTimescale(x) ==
    IF x.cls = "int" /\ x.code \in {0, 1, 2} THEN TimescaleMember(TimescaleNames[x.code + 1])
    ELSE x

AsDateSystem(x) ==
    IF x.cls = "int" /\ x.code \in {0, 1, 2} THEN DateSystemMember(DateSystemNames[x.code + 1])
    ELSE x

\* The positional arguments (system, scale), (scale) or () with the codes
\* replaced by the members; scaleFirst tells that one argument is a scale.
\* After five more calendar fields the arguments are (scale) or
\* (system, scale).
WithMembers(pos, scaleFirst) ==
    IF Len(pos) = 2 THEN <<AsDateSystem(pos[1]), AsTimescale(pos[2])>>
    ELSE IF Len(pos) = 1
         THEN IF scaleFirst THEN <<AsTimescale(pos[1])>> ELSE <<AsDateSystem(pos[1])>>
    ELSE IF Len(pos) = 6 THEN SubSeq(pos, 1, 5) \o <<AsTimescale(pos[6])>>
    ELSE IF Len(pos) = 7
         THEN SubSeq(pos, 1, 5) \o <<AsDateSystem(pos[6]), AsTimescale(pos[7])>>
    ELSE pos

\* Two results are the same: both calls fail, or both return the same value.
Same(x, y) == IF IsError(x) \/ IsError(y) THEN IsError(x) /\ IsError(y) ELSE x = y

\* An integer that is not the code of an enum member.
BadCode(x) == x.cls = "int" /\ x.code \notin {0, 1, 2}

\* The positional arguments that are passed as a scale or a date system.
ScalesAndSystems(pos) ==
    IF Len(pos) <= 2 THEN {pos[k] : k \in 1..Len(pos)}
    ELSE IF Len(pos) \in {6, 7} THEN {pos[k] : k \in 6..Len(pos)}
    ELSE {}

\* C1: for every integer n >= 0 and scale s in {TAI, UTC},
\* DateTime(n, s).nsecs(s) returns exactly n.
C1_NsecsReturnsCount ==
    (/\ OnNanos("nsecs")
     /\ ~heap[ret.obj].first.neg
     /\ heap[ret.obj].scale \in {TAI, UTC}
     /\ ret.pos = <<heap[ret.obj].scale>>)
    => ret.out = heap[ret.obj].first

\* C2: for every DateTime after 1972-01-01 UTC, nsecs(TAI) - nsecs(UTC) is
\* exactly L * 10^9, L the whole-second TAI-UTC offset of the leap table in
\* force at that UTC instant.
C2_TaiMinusUtcIsLeapOffset ==
    (/\ ret.op = "nsecs"
     /\ ret.pos = <<TAI>>
     /\ AsScale(heap[ret.obj].internal, "utc").day >= FirstLeapDay)
    => Minus(ret.out, nsecs(heap[ret.obj].internal, <<UTC>>))
         = [s |-> LeapSeconds(AsScale(heap[ret.obj].internal, "utc").day), ns |-> 0]

\* C3: equality does not depend on the scale of construction: for every
\* post-1972 n, DateTime(n, UTC) == DateTime(DateTime(n, UTC).nsecs(TAI), TAI)
\* is true and != of the two is false.
C3_EqualAcrossScales ==
    (/\ ret.op \in {"eq", "ne"}
     /\ heap[ret.obj].kind = "nanos"
     /\ heap[ret.rhs].kind = "nanos"
     /\ heap[ret.obj].scale = UTC
     /\ ~heap[ret.obj].first.neg
     /\ heap[ret.obj].first.s > EPOCH_INTEGER_LEAP
     /\ heap[ret.rhs].scale = TAI
     /\ heap[ret.rhs].first = nsecs(heap[ret.obj].internal, <<TAI>>))
    => ret.out = Bool(ret.op = "eq")

\* C4: TT is TAI plus exactly 32.184 s: for every integer n,
\* DateTime(n, TT).nsecs(TAI) = n - 32184000000.
C4_TtIsTaiPlusFixed ==
    (/\ OnNanos("nsecs")
     /\ heap[ret.obj].scale = TT
     /\ ret.pos = <<TAI>>)
    => Minus(heap[ret.obj].first, ret.out) = [s |-> TT_MINUS_TAI_S, ns |-> TT_MINUS_TAI_NS]

\* C5: nsecs(UTC) is the leap-second-free count since 1970-01-01T00:00:00Z:
\* for UTC civil day D, second of the day 3600h + 60m + s and f nanoseconds,
\* nsecs(UTC) = ((D - 40587) * 86400 + 3600h + 60m + s) * 10^9 + f.
C5_UtcCountFromCivilTime ==
    (ret.op = "nsecs" /\ ret.pos = <<UTC>>)
    => Floor(ret.out)
         = [s |-> (AsScale(heap[ret.obj].internal, "utc").day - EPOCH_MJD) * DAYSEC
                    + AsScale(heap[ret.obj].internal, "utc").sod,
            ns |-> AsScale(heap[ret.obj].internal, "utc").ns]

\* C6: for every integer n < 0 and scale s in {TAI, UTC},
\* DateTime(n, s).nsecs(s) returns exactly n, sign and digits.
C6_NsecsReturnsNegativeCount ==
    (/\ OnNanos("nsecs")
     /\ heap[ret.obj].first.neg
     /\ heap[ret.obj].scale \in {TAI, UTC}
     /\ ret.pos = <<heap[ret.obj].scale>>)
    => ret.out = heap[ret.obj].first

\* C7: DateTimes are ordered by instant: for n1 < n2 and s in {TAI, UTC},
\* DateTime(n1, s) < DateTime(n2, s) is true and
\* DateTime(n2, s) < DateTime(n1, s) is false, whatever the objects.
C7_OrderedByInstant ==
    (/\ ret.op = "lt"
     /\ heap[ret.obj].kind = "nanos"
     /\ heap[ret.rhs].kind = "nanos"
     /\ heap[ret.obj].scale \in {TAI, UTC}
     /\ heap[ret.obj].scale = heap[ret.rhs].scale
     /\ heap[ret.obj].first # heap[ret.rhs].first)
    => ret.out = Bool(Less(heap[ret.obj].first, heap[ret.rhs].first))

\* C8: nsecs called with the TT scale, as Timescale.TT or as the integer 2,
\* fails with the error for an unsupported scale and returns no value.
C8_NsecsRejectsTT ==
    (ret.op = "nsecs" /\ Len(ret.pos) = 1 /\ ret.pos[1] \in {TT, PyInt(2)})
    => ret.out \in {Error("nsecs: TT"), Error("nsecs: timescale")}

\* nsecs(2) was called on a DateTime made from integer nanoseconds, and it
\* raised.
C8_Witness ==
    /\ OnNanos("nsecs")
    /\ ret.pos = <<PyInt(2)>>
    /\ IsError(ret.out)

\* C9: in the constructor, nsecs, get and mjd, the integer code 0, 1 or 2
\* gives the same result as the enum member it stands for.
C9_CodeSameAsMember ==
    /\ ret.op = "DateTime" =>
         Same(DateTime(ret.first, ret.pos, ret.kw),
              DateTime(ret.first, WithMembers(ret.pos, TRUE),
                   [scale |-> AsTimescale(ret.kw.scale),
                    system |-> AsDateSystem(ret.kw.system)]))
    /\ ret.op = "nsecs" =>
         Same(ret.out, nsecs(heap[ret.obj].internal, WithMembers(ret.pos, TRUE)))
    /\ ret.op = "get" =>
         Same(ret.out, get(heap[ret.obj].internal, WithMembers(ret.pos, FALSE)))
    /\ ret.op = "mjd" =>
         Same(ret.out, mjd(heap[ret.obj].internal, WithMembers(ret.pos, TRUE)))

\* C10: an integer outside {0, 1, 2} passed as the scale or the date system
\* of the constructor, nsecs or get fails: no DateTime is made and no value
\* is returned.
C10_BadCodeFails ==
    (/\ ret.op \in {"DateTime", "nsecs", "get"}
     /\ \/ \E x \in ScalesAndSystems(ret.pos) : BadCode(x)
        \/ BadCode(ret.kw.scale)
        \/ BadCode(ret.kw.system))
    => IsError(ret.out)

\* chars is YYYY-MM-DDTHH:MM:SS.fffffffff followed by Z.
IsExtendedUtc(chars) ==
    /\ Len(chars) = 30
    /\ \A i \in 1..30 :
          CASE i \in {5, 8} -> chars[i] = "-"
            [] i = 11 -> chars[i] = "T"
            [] i \in {14, 17} -> chars[i] = ":"
            [] i = 20 -> chars[i] = "."
            [] i = 30 -> chars[i] = "Z"
            [] OTHER -> IsDigit(chars[i])

\* C11: toString() and str() return, for every DateTime, its UTC time in the
\* extended form YYYY-MM-DDTHH:MM:SS.fffffffff with exactly nine fractional
\* digits and a final Z: the text has that shape, and read as UTC it is the
\* UTC reading of the object to the nanosecond.
C11_ToStringIsExtendedUtc ==
    ret.op \in {"toString", "str"} =>
        /\ ret.out.cls = "str"
        /\ IsExtendedUtc(ret.out.chars)
        /\ TimeFromIsot(ret.out.chars, "utc")
           = Rounded(AsScale(heap[ret.obj].internal, "utc"))

\* toString() was called on a DateTime that was made in the TT scale and
\* does not sit on a whole second.
C11_Witness ==
    /\ ret.op = "toString"
    /\ heap[ret.obj].scale = TT
    /\ heap[ret.obj].internal.scale = "tt"
    /\ ret.out.chars[29] # "0"


\* The extended form of the compact string c: YYYYMMDDTHHMMSS[.f]Z with the
\* hyphens and colons put in.
ExtendedForm(c) ==
    SubSeq(c, 1, 4) \o <<"-">> \o SubSeq(c, 5, 6) \o <<"-">> \o SubSeq(c, 7, 8)
    \o <<"T">> \o SubSeq(c, 10, 11) \o <<":">> \o SubSeq(c, 12, 13) \o <<":">>
    \o SubSeq(c, 14, Len(c))

\* Object c of the heap was made from a compact string and object e from
\* its extended form.
CompactAndExtended(c, e) ==
    /\ heap[c].kind = "text"
    /\ heap[e].kind = "text"
    /\ DigitRun(heap[c].first.chars, 1) = 8
    /\ heap[e].first.chars = ExtendedForm(heap[c].first.chars)

\* C12: a compact string and its extended form denote the same instant: the
\* two DateTimes are equal under == (and not unequal under !=), whichever
\* is on the left, and have the same nsecs(TAI), nsecs(UTC) and toString().
C12_CompactSameAsExtended ==
    (/\ ret.op \in {"eq", "ne"}
     /\ CompactAndExtended(ret.obj, ret.rhs) \/ CompactAndExtended(ret.rhs, ret.obj))
    => /\ ret.out = Bool(ret.op = "eq")
       /\ nsecs(heap[ret.obj].internal, <<TAI>>) = nsecs(heap[ret.rhs].internal, <<TAI>>)
       /\ nsecs(heap[ret.obj].internal, <<UTC>>) = nsecs(heap[ret.rhs].internal, <<UTC>>)
       /\ toString(heap[ret.obj].internal) = toString(heap[ret.rhs].internal)

\* A DateTime made from a compact string with a fraction was compared with
\* == to the one made from the extended form.
C12_Witness ==
    /\ ret.op = "eq"
    /\ CompactAndExtended(ret.obj, ret.rhs)
    /\ \E i \in 1..Len(heap[ret.obj].first.chars) : heap[ret.obj].first.chars[i] = "."

\* chars is YYYY-MM-DDTHH:MM:SS, then nothing or a point and one to nine
\* digits, then Z.
IsExtendedUpToNine(chars) ==
    /\ Len(chars) \in {20} \cup 22..30
    /\ \A i \in 1..Len(chars) :
          CASE i \in {5, 8} -> chars[i] = "-"
            [] i = 11 -> chars[i] = "T"
            [] i \in {14, 17} -> chars[i] = ":"
            [] i = Len(chars) -> chars[i] = "Z"
            [] i = 20 -> chars[i] = "."
            [] OTHER -> IsDigit(chars[i])

\* chars with its fraction filled with zeros to nine digits.
ZeroPadded(chars) ==
    SubSeq(chars, 1, 19) \o <<".">> \o SubSeq(chars, 21, Len(chars) - 1)
    \o [i \in 1..(30 - Len(chars) - (IF Len(chars) = 20 THEN 1 ELSE 0)) |-> "0"]
    \o <<"Z">>

\* C13: reading and writing loses nothing: for a well-formed extended UTC
\* string s with zero to nine fractional digits and a final Z, before or
\* after 1970 and 1972, DateTime(s).toString() is s with the fraction filled
\* with zeros to nine digits.
C13_ParseThenRender ==
    (/\ ret.op \in {"toString", "str"}
     /\ heap[ret.obj].kind = "text"
     /\ IsExtendedUpToNine(heap[ret.obj].first.chars))
    => ret.out = PyStr(ZeroPadded(heap[ret.obj].first.chars))

\* toString() was called on a DateTime made from an extended string of 1969
\* with nine fractional digits.
C13_Witness ==
    /\ ret.op = "toString"
    /\ heap[ret.obj].kind = "text"
    /\ IsExtendedUpToNine(heap[ret.obj].first.chars)
    /\ Len(heap[ret.obj].first.chars) = 30
    /\ SubSeq(heap[ret.obj].first.chars, 1, 4) = <<"1", "9", "6", "9">>

\* chars with its fraction cut to nine digits.
CutToNine(chars) == SubSeq(chars, 1, 29) \o <<"Z">>

\* C14: fractional digits beyond the ninth are cut off, never rounded: for
\* an extended string s with more than nine of them, DateTime(s) equals
\* DateTime(s cut to nine digits), and the two are written the same.
C14_ExtraDigitsTruncated ==
    (/\ ret.op \in {"eq", "ne"}
     /\ heap[ret.obj].kind = "text"
     /\ heap[ret.rhs].kind = "text"
     /\ Len(heap[ret.obj].first.chars) > 30
     /\ heap[ret.obj].first.chars[20] = "."
     /\ heap[ret.rhs].first.chars = CutToNine(heap[ret.obj].first.chars))
    => /\ ret.out = Bool(ret.op = "eq")
       /\ toString(heap[ret.obj].internal) = toString(heap[ret.rhs].internal)

\* Object i of the heap was made by DateTime().
IsDefault(i) == heap[i].kind = "default"

\* Object i of the heap was made by DateTime(0, sc).
IsZero(i, sc) ==
    heap[i].kind = "nanos" /\ heap[i].first = PyLong(FALSE, 0, 0) /\ heap[i].scale = sc

\* C15: DateTime() is 0 nanoseconds TAI since the epoch: it equals
\* DateTime(0, TAI) and does not equal DateTime(0, UTC), whichever is on the
\* left; it is written 1969-12-31T23:59:51.999918240Z, and DateTime(0, UTC)
\* is written 1970-01-01T00:00:00.000000000Z.
C15_DefaultIsZeroTai ==
    /\ (/\ ret.op \in {"eq", "ne"}
        /\ \/ IsDefault(ret.obj) /\ IsZero(ret.rhs, TAI)
           \/ IsDefault(ret.rhs) /\ IsZero(ret.obj, TAI))
       => ret.out = Bool(ret.op = "eq")
    /\ (/\ ret.op \in {"eq", "ne"}
        /\ \/ IsDefault(ret.obj) /\ IsZero(ret.rhs, UTC)
           \/ IsDefault(ret.rhs) /\ IsZero(ret.obj, UTC))
       => ret.out = Bool(ret.op = "ne")
    /\ (ret.op \in {"toString", "str"} /\ IsDefault(ret.obj))
       => ret.out = PyStr(<<"1", "9", "6", "9", "-", "1", "2", "-", "3", "1", "T", "2", "3", ":", "5", "9", ":", "5", "1", ".", "9", "9", "9", "9", "1", "8", "2", "4", "0", "Z">>)
    /\ (ret.op \in {"toString", "str"} /\ IsZero(ret.obj, UTC))
       => ret.out = PyStr(<<"1", "9", "7", "0", "-", "0", "1", "-", "0", "1", "T", "0", "0", ":", "0", "0", ":", "0", "0", ".", "0", "0", "0", "0", "0", "0", "0", "0", "0", "Z">>)

\* DateTime() == DateTime(0, TAI) was evaluated and gave True.
C15_Witness ==
    /\ ret.op = "eq"
    /\ IsDefault(ret.obj)
    /\ IsZero(ret.rhs, TAI)
    /\ ret.out = Bool(TRUE)

\* C16: a DateTime made from the float date that get(sys, sc) returns, with
\* the same system and scale, is the instant the date was read from, to the
\* nanosecond.
C16_GetThenConstruct ==
    ret.op = "fromGet" =>
        Rounded(AsScale(heap[ret.obj].internal, "tai"))
            = Rounded(AsScale(heap[ret.rhs].internal, "tai"))

\* C17: mjd(sc) for a scale sc of TAI, UTC, TT returns what get(MJD, sc)
\* returns for the same DateTime, and mjd() what get(MJD, TAI) returns.
C17_MjdIsGetMjd ==
    ret.op = "mjd" /\ (\A k \in 1..Len(ret.pos) : ret.pos[k] \in Timescale) =>
        ret.out = get(heap[ret.obj].internal,
                      IF ret.pos = <<>> THEN <<MJD, TAI>> ELSE <<MJD>> \o ret.pos)

\* mjd(UTC) of a DateTime made from integer nanoseconds in TAI has returned
\* a float that is not a whole number of days.
C17_Witness ==
    /\ ret.op = "mjd" /\ ret.pos = <<UTC>>
    /\ heap[ret.obj].kind = "nanos" /\ heap[ret.obj].scale = TAI
    /\ ret.out.cls = "float" /\ ret.out.lo > 0

\* C18: the UTC rendering of a DateTime made from six calendar fields and a
\* scale shows the year, month, day, hour, minute and second that were
\* passed, whatever the scale.
C18_FieldsAreUtc ==
    ret.op \in {"toString", "str"} /\ heap[ret.obj].kind = "fields" =>
        ret.out = PyStr(IsoOfFields(heap[ret.obj].first)
                        \o <<".", "0", "0", "0", "0", "0", "0", "0", "0", "0", "Z">>)

\* C19: a constructor call with 4, 5 or 9 and more positional arguments
\* fails with the error for the number of arguments, and no DateTime is
\* made.
C19_ArgumentCount ==
    ret.op = "DateTime" /\ (1 + Len(ret.pos) \in {4, 5} \/ 1 + Len(ret.pos) >= 9) =>
        /\ ret.out = Error("__init__: number of arguments")
        /\ ret.obj = 0
        /\ heap = <<>>

\* The constructor was called with five integers and raised.
C19_Witness ==
    /\ ret.op = "DateTime" /\ Len(ret.pos) = 4
    /\ ret.first.cls = "int"
    /\ IsError(ret.out) /\ heap = <<>>

\* C20: a string that is neither a well-formed extended form nor a
\* well-formed compact form is rejected: the constructor raises and no
\* DateTime is made.
C20_MalformedRejected ==
    ret.op = "DateTime" /\ ret.first \in OtherStrings =>
        IsError(ret.out) /\ ret.obj = 0 /\ heap = <<>>

\* Threads that share up to MaxObjects DateTimes and call their accessors.
\* Each accessor first binds the name t to a Time made from self._internal
\* (lines 322, 141-145, 386) and then works on t alone; the interpreter can
\* switch threads between the two.  locals holds what t names, by the place
\* that holds the name.
ThreadSamples == {PyLong(FALSE, 0, 1), PyLong(FALSE, 631151998, 0), ProbeNanos}

ThreadCalls ==
    {[op |-> "nsecs", args |-> a] : a \in {<<>>, <<UTC>>}}
    \cup {[op |-> "get", args |-> a] : a \in {<<>>, <<DateSystemMember("MJD"), UTC>>,
                                               <<DateSystemMember("EPOCH"), TT>>}}
    \cup {[op |-> "mjd", args |-> a] : a \in {<<>>, <<TT>>}}
    \cup {[op |-> "toString", args |-> <<>>]}

\* t as one name of the module, which every call of every thread binds.
local_is_global(th) == 1

\* The place of the name t in a call that thread th makes: its own frame.
local_of(th) == th

\* The rest of the accessor op, which reads t and not self.
Apply(op, t, args) ==
    CASE op = "nsecs" -> nsecs(t, args)
      [] op = "get" -> get(t, args)
      [] op = "mjd" -> mjd(t, args)
      [] OTHER -> toString(t)

\* The function f with the value v at k, and f without k.
Put(f, k, v) == [x \in DOMAIN f \cup {k} |-> IF x = k THEN v ELSE f[x]]

Drop(f, k) == [x \in DOMAIN f \ {k} |-> f[x]]

ConstructShared ==
    /\ Len(heap) < MaxObjects
    /\ UNCHANGED <<tz, frames, locals>>
    /\ \E first \in ThreadSamples, sc \in {TAI, UTC}, addr \in FreeAddresses :
          Construct("nanos", first, [pos |-> <<sc>>, kw |-> NoKw], addr)

\* A thread enters an accessor and binds t.
ThreadBegin ==
    \E th \in Threads, i \in 1..Len(heap), call \in ThreadCalls :
        /\ th \notin DOMAIN frames
        /\ frames' = Put(frames, th, [pc |-> "bound", op |-> call.op, obj |-> i,
                                      args |-> call.args, out |-> Absent])
        /\ locals' = Put(locals, local_of(th), heap[i].internal)
        /\ UNCHANGED <<heap, ret, tz>>

\* The thread runs the accessor to its return.
ThreadFinish ==
    \E th \in DOMAIN frames :
        /\ frames[th].pc = "bound"
        /\ local_of(th) \in DOMAIN locals
        /\ frames' = [frames EXCEPT ![th].pc = "returned",
                                    ![th].out = Apply(frames[th].op, locals[local_of(th)],
                                                      frames[th].args)]
        /\ heap' = [heap EXCEPT ![frames[th].obj].internal = self_after(frames[th].op, @)]
        /\ UNCHANGED <<ret, tz, locals>>

\* The caller takes the value; the frame and its names are gone.
ThreadReturn ==
    \E th \in DOMAIN frames :
        /\ frames[th].pc = "returned"
        /\ frames' = Drop(frames, th)
        /\ locals' = Drop(locals, local_of(th))
        /\ UNCHANGED <<heap, ret, tz>>

NextThreads ==
    \/ ConstructShared
    \/ ThreadBegin
    \/ ThreadFinish
    \/ ThreadReturn

SpecThreads == Init /\ [][NextThreads]_vars

\* The test cases of TimeZoneBaseTestCase: setUp puts one of Zones in TZ, and
\* the test makes a DateTime and calls its accessors.
SetZone ==
    /\ \E zone \in Zones \ {tz} : tz' = zone
    /\ UNCHANGED <<heap, ret, frames, locals>>

ConstructZoned ==
    /\ heap = <<>>
    /\ UNCHANGED <<tz, frames, locals>>
    /\ \E addr \in FreeAddresses :
          \/ \E first \in ThreadSamples, sc \in {TAI, UTC} :
                Construct("nanos", first, [pos |-> <<sc>>, kw |-> NoKw], addr)
          \/ \E f \in FieldSamples :
                Construct("fields", f[1], [pos |-> Tail(f) \o <<UTC>>, kw |-> NoKw], addr)

NextZone ==
    \/ SetZone
    \/ ConstructZoned
    \/ CallNsecs
    \/ CallGet
    \/ CallMjd
    \/ CallToString
    \/ CallToPython

SpecZone == Init /\ [][NextZone]_vars

\* geom.py: a Point or an Extent of two or three dimensions wraps an object
\* of the imaging library, which holds the coordinates; getX, getY, getZ read
\* them and setX, setY, setZ write one of them.  The heap holds the wrapped
\* object's coordinates with the wrapper.
MaxCoordinate == 2

Coordinates == 0..MaxCoordinate

\* p = Point(x, y), Point(x, y, z), Extent(x, y), Extent(x, y, z)
ConstructPoint ==
    /\ heap = <<>>
    /\ UNCHANGED <<tz, frames, locals>>
    /\ \E cls \in {"Point", "Extent"}, dims \in {2, 3}, x, y, z \in Coordinates,
          addr \in FreeAddresses :
          /\ dims = 2 => z = 0
          /\ heap' = <<[kind |-> cls, dimensions |-> dims, x |-> x, y |-> y, z |-> z,
                        addr |-> addr]>>
          /\ ret' = Call(cls, 1, 0, Absent,
                         IF dims = 2 THEN <<PyInt(x), PyInt(y)>>
                         ELSE <<PyInt(x), PyInt(y), PyInt(z)>>,
                         NoKw, [cls |-> cls, name |-> "", code |-> 1])

\* p.x = v: the x setter calls setX(v)
AssignX ==
    \E i \in 1..Len(heap), v \in Coordinates :
        /\ heap' = [heap EXCEPT ![i].x = v]
        /\ ret' = Call("x.setter", i, 0, PyInt(v), <<>>, NoKw, Absent)
        /\ UNCHANGED <<tz, frames, locals>>

\* p.y = v: the y setter calls setX(v)
AssignY ==
    \E i \in 1..Len(heap), v \in Coordinates :
        /\ heap' = [heap EXCEPT ![i].x = v]
        /\ ret' = Call("y.setter", i, 0, PyInt(v), <<>>, NoKw, Absent)
        /\ UNCHANGED <<tz, frames, locals>>

\* p.z = v: the z setter calls setZ(v) on an object of three dimensions and
\* raises AttributeError on one of two.
AssignZ ==
    \E i \in 1..Len(heap), v \in Coordinates :
        /\ heap' = IF heap[i].dimensions = 3 THEN [heap EXCEPT ![i].z = v] ELSE heap
        /\ ret' = Call("z.setter", i, 0, PyInt(v), <<>>, NoKw,
                       IF heap[i].dimensions = 3 THEN Absent
                       ELSE [cls |-> "AttributeError", name |-> "z.setter", code |-> -1])
        /\ UNCHANGED <<tz, frames, locals>>

NextPoint ==
    \/ ConstructPoint
    \/ AssignX
    \/ AssignY
    \/ AssignZ

SpecPoint == Init /\ [][NextPoint]_vars

\* C21: a DateTime is immutable after construction.  Every call of nsecs,
\* get, mjd, toString, str, repr, ==, != and toPython, with any arguments and
\* whether it returns or raises, leaves the Time that every DateTime holds as
\* it was, so that nsecs(TAI), nsecs(UTC), get(system, scale) and toString(),
\* which are functions of that Time alone, return after the call what they
\* returned before it.
Accessors == {"nsecs", "get", "mjd", "toString", "str", "repr", "eq", "ne", "toPython"}

C21_Immutable ==
    [][ret'.op \in Accessors =>
         /\ Len(heap') = Len(heap)
         /\ \A i \in 1..Len(heap) : heap'[i].internal = heap[i].internal]_vars

\* str(ts) has returned, and so has a call that raised, ts.toPython(TT), on a
\* DateTime made from integer nanoseconds.
C21_Witness ==
    /\ Len(heap) = 1
    /\ heap[1].kind = "nanos"
    /\ \/ ret.op = "str"
       \/ ret.op = "toPython" /\ IsError(ret.out)

\* C22: the accessors are safe for unsynchronized concurrent use.  In every
\* interleaving of nsecs, get, mjd and toString calls that several threads
\* make on the same or on different DateTimes, a call returns what the same
\* call on the same DateTime returns when nothing runs beside it.
C22_ReturnsAsAlone ==
    \A th \in DOMAIN frames :
        frames[th].pc = "returned" =>
            frames[th].out = Apply(frames[th].op, heap[frames[th].obj].internal,
                                   frames[th].args)

\* A call on one DateTime has returned while another thread is inside a call
\* on a different DateTime, or a call has returned while another thread is
\* inside a different call on the same DateTime.
C22_Witness ==
    \E a, b \in DOMAIN frames :
        /\ frames[a].pc = "returned"
        /\ frames[b].pc = "bound"
        /\ frames[a].op # frames[b].op
        /\ \/ frames[a].obj = frames[b].obj
           \/ heap[frames[a].obj].internal # heap[frames[b].obj].internal

\* C23: no result depends on the time zone of the process.  Whatever TZ is
\* (not set, Europe/London, GMT0BST or PST8PDT) when nsecs, get, mjd,
\* toString, str or toPython is called on a DateTime, the call returns what it
\* returns on that DateTime in a process where TZ is not set.
C23_ZoneIndependent ==
    ret.op \in {"nsecs", "get", "mjd", "toString", "str", "toPython"} =>
        ret.out = (CASE ret.op = "toPython" -> toPython(heap[ret.obj].internal, ret.pos, "")
                     [] ret.op = "str" -> str(heap[ret.obj].internal)
                     [] OTHER -> Apply(ret.op, heap[ret.obj].internal, ret.pos))

\* toPython(UTC) has returned a datetime under TZ=PST8PDT, for the DateTime of
\* testConvert: 2012-07-19 18:29:33.
C23_Witness ==
    /\ tz = "PST8PDT"
    /\ ret.op = "toPython"
    /\ ret.pos = <<UTC>>
    /\ ret.out.cls = "datetime"
    /\ ret.out.year = 2012 /\ ret.out.month = 7 /\ ret.out.day = 19
    /\ ret.out.hour = 18 /\ ret.out.minute = 29 /\ ret.out.second = 33

\* C24: a scale that is left out is TAI.  DateTime(n) for integer
\* nanoseconds n equals DateTime(n, TAI), whichever is on the left, and
\* d.nsecs() is d.nsecs(TAI) for every DateTime d.
C24_OmittedScaleIsTai ==
    /\ (/\ ret.op = "DateTime"
        /\ ret.obj > 0
        /\ ret.first.cls = "long"
        /\ ret.pos = <<>>
        /\ ret.kw = NoKw)
       => /\ eq(heap[ret.obj].internal, DateTime(ret.first, <<TAI>>, NoKw))
          /\ eq(DateTime(ret.first, <<TAI>>, NoKw), heap[ret.obj].internal)
    /\ (ret.op = "nsecs" /\ ret.pos = <<>>)
       => ret.out = nsecs(heap[ret.obj].internal, <<TAI>>)

\* d.nsecs() has returned a count, d made as DateTime(n, UTC) from a count n
\* of 2007.
C24_Witness ==
    /\ ret.op = "nsecs"
    /\ ret.pos = <<>>
    /\ ret.out.cls = "long"
    /\ heap[ret.obj].kind = "nanos"
    /\ heap[ret.obj].first = ProbeNanos
    /\ heap[ret.obj].scale = UTC

\* The seconds and nanoseconds that TAI is ahead of the count n for the
\* DateTime i, made as DateTime(n, UTC) from a whole number of seconds n.
AddedOffset(i) ==
    LET r == AsTai(heap[i].internal)
    IN  [s |-> (r.day - EPOCH_MJD) * DAYSEC + r.sod - TimeArg(heap[i].first), ns |-> r.ns]

FromWholeUtcSeconds(i) ==
    heap[i].kind = "nanos" /\ heap[i].scale = UTC /\ heap[i].first.f = 0

\* C25 as stated: for a DateTime made from integer nanoseconds in UTC at or
\* before the integer-leap threshold (63072000 s after the epoch), the TAI-UTC
\* offset that was added is a whole number of seconds.
C25_RoundedAtOrBefore ==
    \A i \in 1..Len(heap) :
        (FromWholeUtcSeconds(i) /\ TimeArg(heap[i].first) <= EPOCH_INTEGER_LEAP)
            => AddedOffset(i).ns = 0

\* C25 amended: the offset is rounded to the nearest whole second when the
\* count is more than 63072000 s after the epoch, and is added as it is, with
\* its fraction of a second, when the count is at or before that: 8.000082 s
\* for a count of 0.
C25_RoundedAfter ==
    \A i \in 1..Len(heap) :
        FromWholeUtcSeconds(i) =>
            LET k == TimeArg(heap[i].first)
                d == TaiMinusUnix(k)
            IN  /\ k > EPOCH_INTEGER_LEAP =>
                      AddedOffset(i) = [s |-> IF 2 * d.ns >= NANO THEN d.s + 1 ELSE d.s,
                                        ns |-> 0]
                /\ k <= EPOCH_INTEGER_LEAP => AddedOffset(i) = d
                /\ k = 0 => AddedOffset(i) = [s |-> 8, ns |-> 82000]

\* DateTime(631151998000000000, UTC) was made: two seconds before the end of
\* a day with a leap second, where TAI-UTC by astropy's unix format is just
\* under 25 s and the offset added is 25 s.
C25_Witness ==
    /\ Len(heap) = 1
    /\ FromWholeUtcSeconds(1)
    /\ heap[1].first = PyLong(FALSE, 631151998, 0)
    /\ AddedOffset(1) = [s |-> 25, ns |-> 0]
    /\ TaiMinusUnix(631151998).ns > 0

\* C26: the conversion is exact next to a leap second.  For
\* d = DateTime(631151998000000000, UTC), two seconds before the leap second
\* that ends 1989, d.nsecs(UTC) is 631151998000000000 and d.nsecs(TAI) is
\* 631152023000000000; for DateTime(47892.0, MJD, UTC), 0h of 1990-01-01,
\* nsecs(UTC) is 631152000000000000 and nsecs(TAI) is 631152025000000000.
C26_ExactAtLeapSecond ==
    \A i \in 1..Len(heap) :
        (ret.op = "nsecs" /\ ret.obj = i /\ heap[i].scale = UTC) =>
            /\ (heap[i].kind = "nanos" /\ heap[i].first = PyLong(FALSE, 631151998, 0)) =>
                  /\ ret.pos = <<UTC>> => ret.out = PyLong(FALSE, 631151998, 0)
                  /\ ret.pos = <<TAI>> => ret.out = PyLong(FALSE, 631152023, 0)
            /\ (heap[i].kind = "date" /\ heap[i].first = PyFloat(47892, 0)) =>
                  /\ ret.pos = <<UTC>> => ret.out = PyLong(FALSE, 631152000, 0)
                  /\ ret.pos = <<TAI>> => ret.out = PyLong(FALSE, 631152025, 0)

\* nsecs(TAI) has returned for DateTime(631151998000000000, UTC).
C26_Witness ==
    /\ ret.op = "nsecs"
    /\ ret.pos = <<TAI>>
    /\ ret.out.cls = "long"
    /\ heap[ret.obj].kind = "nanos"
    /\ heap[ret.obj].scale = UTC
    /\ heap[ret.obj].first = PyLong(FALSE, 631151998, 0)

\* DateTime(n, UTC).nsecs(TAI) - n for the DateTime i made as DateTime(n, UTC).
UtcOffset(i) == Minus(nsecs(heap[i].internal, <<TAI>>), heap[i].first)

\* The UTC day that the count n falls on.
DayOfCount(n) == EPOCH_MJD + (Floor(n).s \div DAYSEC)

\* C27: the TAI-UTC offset applied to UTC integer nanoseconds is a
\* non-decreasing step function of the UTC instant: for counts n1 <= n2 the
\* offset of n2 is at least the offset of n1, and two counts from 1972 on
\* with no boundary of the leap-second table between their days have the
\* same offset.
C27_OffsetIsStep ==
    \A i, j \in 1..Len(heap) :
        (/\ heap[i].kind = "nanos" /\ heap[i].scale = UTC
         /\ heap[j].kind = "nanos" /\ heap[j].scale = UTC
         /\ ~Less(heap[j].first, heap[i].first))
        => /\ \/ UtcOffset(j).s > UtcOffset(i).s
              \/ UtcOffset(j).s = UtcOffset(i).s /\ UtcOffset(j).ns >= UtcOffset(i).ns
           /\ (/\ DayOfCount(heap[i].first) >= FirstLeapDay
               /\ LeapSeconds(DayOfCount(heap[i].first))
                    = LeapSeconds(DayOfCount(heap[j].first)))
              => UtcOffset(j) = UtcOffset(i)

\* C28: an integer first argument is nanoseconds since the epoch also when a
\* date system is passed: DateTime(n, sys, sc) is made and equals
\* DateTime(n, sc), whichever is on the left, for every date system sys and
\* scale sc.  A float first argument is a date of sys: the same float passed
\* as MJD and as JD is a different day.
C28_SystemIgnoredForInteger ==
    (/\ ret.op = "DateTime"
     /\ Len(ret.pos) = 2
     /\ ret.pos[1] \in DateSystem
     /\ ret.pos[2] \in Timescale
     /\ ret.kw = NoKw)
    => /\ ret.first.cls = "long" =>
             /\ ret.obj > 0
             /\ eq(heap[ret.obj].internal, DateTime(ret.first, <<ret.pos[2]>>, NoKw))
             /\ eq(DateTime(ret.first, <<ret.pos[2]>>, NoKw), heap[ret.obj].internal)
       /\ (ret.first.cls = "float" /\ ret.obj > 0) =>
             (heap[ret.obj].internal.day = ret.first.whole) = (ret.pos[1] = MJD)

\* DateTime(1192755473000000001, JD, UTC) was made.
C28_Witness ==
    /\ ret.op = "DateTime"
    /\ ret.obj > 0
    /\ ret.first = ProbeNanos
    /\ ret.pos = <<DateSystemMember("JD"), UTC>>
    /\ heap[ret.obj].kind = "nanos"

\* C29: repr round-trips.  For every DateTime d, repr(d) is the text
\* DateTime(<d.nsecs(TAI)>), and DateTime(d.nsecs(TAI)) == d, before 1972 and
\* before the epoch too.
C29_ReprRoundTrips ==
    ret.op = "repr" =>
        LET d == heap[ret.obj].internal
            n == nsecs(d, <<TAI>>)
        IN  /\ ret.out = PyStr(<<"D", "a", "t", "e", "T", "i", "m", "e", "(">>
                               \o LongText(n) \o <<")">>)
            /\ eq(DateTime(n, <<>>, NoKw), d)

\* C30: assigning to a coordinate attribute of a Point or an Extent changes
\* that coordinate only.  After p.y = v, p.y is v and p.x and p.z are what
\* they were; after p.x = v, p.x is v and p.y and p.z are what they were.
C30_AssignChangesOne ==
    [][/\ ret'.op = "y.setter" =>
            /\ heap'[ret'.obj].y = ret'.first.code
            /\ heap'[ret'.obj].x = heap[ret'.obj].x
            /\ heap'[ret'.obj].z = heap[ret'.obj].z
       /\ ret'.op = "x.setter" =>
            /\ heap'[ret'.obj].x = ret'.first.code
            /\ heap'[ret'.obj].y = heap[ret'.obj].y
            /\ heap'[ret'.obj].z = heap[ret'.obj].z]_vars

====
